---- MODULE Spec2Model ----
(***************************************************************************)
(* Model of the MacBook SPI keyboard/touchpad driver                       *)
(* (drivers/applespi/applespi.c): command queuing, the read/write exchange *)
(* cycle, drain on suspend/remove, packet reassembly and the packet        *)
(* encoder with its CRC-16.                                                *)
(*                                                                         *)
(* Nine specifications share the variables:                                *)
(*   Spec     the exchange coordinator: every handler that takes           *)
(*            cmd_msg_lock is one atomic action; the device's packets are  *)
(*            described by their header fields and the outcome of the      *)
(*            checks on their bytes.                                       *)
(*   FairSpec Spec with the fairness the SPI core and the scheduler give.  *)
(*   RxSpec   applespi_got_data on 256-byte packets, byte for byte.        *)
(*   HdrSpec  applespi_got_data on packets with arbitrary header fields.   *)
(*   EncSpec  the command encoder of applespi_send_cmd_msg, byte for byte, *)
(*            looped back into applespi_got_data.                          *)
(*   BlSpec   the scaling of the keyboard backlight level.                 *)
(*   TpSpec   applespi_got_data and report_tp_state on touchpad messages.  *)
(*   KbSpec   applespi_handle_keyboard_event on keyboard reports.          *)
(*   CntSpec  the exchange cycle with a count of the commands built.       *)
(***************************************************************************)
EXTENDS Integers, Sequences, FiniteSets, TLC

VARIABLES
  want_init_cmd,     \* applespi->want_init_cmd
  want_cl_led_on,    \* applespi->want_cl_led_on
  have_cl_led_on,    \* applespi->have_cl_led_on
  want_bl_level,     \* applespi->want_bl_level
  have_bl_level,     \* applespi->have_bl_level
  cmd_msg_cntr,      \* applespi->cmd_msg_cntr
  cmd_msg_queued,    \* applespi->cmd_msg_queued
  drain,             \* applespi->drain
  read_active,       \* applespi->read_active
  write_active,      \* applespi->write_active
  saved_msg_len,     \* applespi->saved_msg_len
  tx_cmd,            \* the command held in tx_buffer (fields before encoding)
  spi_queue,         \* spi messages handed to spi_async, not yet completed
  gpe_enabled,       \* the GPE is enabled and applespi_notify is installed
  pm_pc,             \* position of the probe / suspend / remove / resume caller
  pm_op,             \* which of suspend or remove is running
  woken,             \* wake_up_all(&drain_complete) reached the sleeping caller
  awaiting_ack,      \* commands written successfully whose response was not read yet
  last_event,        \* what the last step did (handler, outcome)
  rx_buffer,         \* applespi->rx_buffer, 256 bytes
  tx_buffer,         \* applespi->tx_buffer, 256 bytes
  msg_buf,           \* applespi->msg_buf, 512 bytes
  rx_result,         \* outcome of the last applespi_got_data on rx_buffer
  trail              \* the inputs fed most recently, oldest first

coord_vars == <<want_init_cmd, want_cl_led_on, have_cl_led_on, want_bl_level,
                have_bl_level, cmd_msg_cntr, cmd_msg_queued, drain, read_active,
                write_active, tx_cmd, spi_queue, gpe_enabled, pm_pc, pm_op,
                woken, awaiting_ack, last_event>>

wire_vars == <<rx_buffer, tx_buffer, msg_buf, rx_result, trail>>

vars == <<coord_vars, saved_msg_len, wire_vars>>

(***************************************************************************)
(* Program constants                                                       *)
(***************************************************************************)
APPLESPI_PACKET_SIZE == 256
APPLESPI_STATUS_SIZE == 4
PACKET_TYPE_READ == 32
PACKET_TYPE_WRITE == 64
PACKET_DEV_KEYB == 1
PACKET_DEV_TPAD == 2
MAX_FINGERS == 11
MAX_ROLLOVER == 6
MAX_PKTS_PER_MSG == 2
MIN_KBD_BL_LEVEL == 32
MAX_KBD_BL_LEVEL == 255
KBD_BL_LEVEL_SCALE == 1000000
KBD_BL_LEVEL_ADJ == ((MAX_KBD_BL_LEVEL - MIN_KBD_BL_LEVEL) * KBD_BL_LEVEL_SCALE) \div 255
MSG_HEADER_SIZE == 8
PACKET_DATA_SIZE == 246
MSG_BUF_SIZE == MAX_PKTS_PER_MSG * APPLESPI_PACKET_SIZE
TP_HEADER_SIZE == 48
TP_FINGER_SIZE == 30
U16_MAX == 65535
INT_MAX == 2147483647

(***************************************************************************)
(* Bounds of the model                                                     *)
(***************************************************************************)
\* commands built, and read transfers queued at a time (the GPE firing again
\* before the read it caused has completed is a spurious duplicate)
MaxCmds == 3
MaxReads == 2

\* caller-visible brightness values requested through the LED class device
BlValues == {0, 255}
\* results of spi_async: 0, or an error
AsyncSts == {0, -1}

(***************************************************************************)
(* The state protected by cmd_msg_lock, as one record, so that a handler   *)
(* is a function from the state it finds to the state it leaves.           *)
(***************************************************************************)
Locked ==
  [want_init_cmd |-> want_init_cmd, want_cl_led_on |-> want_cl_led_on,
   have_cl_led_on |-> have_cl_led_on, want_bl_level |-> want_bl_level,
   have_bl_level |-> have_bl_level, cmd_msg_cntr |-> cmd_msg_cntr,
   cmd_msg_queued |-> cmd_msg_queued, drain |-> drain,
   read_active |-> read_active, write_active |-> write_active,
   tx_cmd |-> tx_cmd, spi_queue |-> spi_queue, woken |-> woken]

Store(s) ==
  /\ want_init_cmd' = s.want_init_cmd
  /\ want_cl_led_on' = s.want_cl_led_on
  /\ have_cl_led_on' = s.have_cl_led_on
  /\ want_bl_level' = s.want_bl_level
  /\ have_bl_level' = s.have_bl_level
  /\ cmd_msg_cntr' = s.cmd_msg_cntr
  /\ cmd_msg_queued' = s.cmd_msg_queued
  /\ drain' = s.drain
  /\ read_active' = s.read_active
  /\ write_active' = s.write_active
  /\ tx_cmd' = s.tx_cmd
  /\ spi_queue' = s.spi_queue
  /\ woken' = s.woken

\* an entry of the SPI core's queue: rd_m, or wr_m with the command it carried
\* when it was submitted
RdXfer == [t |-> "rd", kind |-> "none"]
WrXfer(kind) == [t |-> "wr", kind |-> kind]

\* memset(packet, 0, APPLESPI_PACKET_SIZE)
NoCmd == [kind |-> "none", device |-> 0, counter |-> 0, val |-> 0]

\* applespi_async: spi_async puts the message at the tail of the queue and
\* returns 0, or returns an error and queues nothing
applespi_async(queue, xfer, sts) == IF sts = 0 THEN Append(queue, xfer) ELSE queue

\* lines 945-972: finalize the packet, send it, set the flags
FinalizeAndSend(s, kind, device, val, sts) ==
  LET cmd == [kind |-> kind, device |-> device,
              counter |-> s.cmd_msg_cntr % 256, val |-> val]
      b == [s EXCEPT !.tx_cmd = cmd,
                     !.cmd_msg_cntr = s.cmd_msg_cntr + 1,
                     !.spi_queue = applespi_async(s.spi_queue, WrXfer(kind), sts)]
  IN IF sts # 0 THEN b
     ELSE [b EXCEPT !.cmd_msg_queued = TRUE, !.write_active = TRUE]

\* faulty variant of BuildAndSend: the backlight is tested before the
\* caps-lock led
BuildAndSend_bl_first(s, sts) ==
  LET z == [s EXCEPT !.tx_cmd = NoCmd]
  IN IF s.want_init_cmd
     THEN FinalizeAndSend([z EXCEPT !.want_init_cmd = FALSE],
                          "init", PACKET_DEV_TPAD, 0, sts)
     ELSE IF s.want_bl_level # s.have_bl_level
     THEN FinalizeAndSend([z EXCEPT !.have_bl_level = s.want_bl_level],
                          "bl", PACKET_DEV_KEYB, s.want_bl_level, sts)
     ELSE IF s.want_cl_led_on # s.have_cl_led_on
     THEN FinalizeAndSend([z EXCEPT !.have_cl_led_on = s.want_cl_led_on],
                          "capsl", PACKET_DEV_KEYB,
                          IF s.want_cl_led_on THEN 2 ELSE 0, sts)
     ELSE z

\* faulty variant of BuildAndSend: with nothing pending, the zeroed packet is
\* sent all the same
BuildAndSend_empty_write(s, sts) ==
  LET z == [s EXCEPT !.tx_cmd = NoCmd]
  IN IF s.want_init_cmd
     THEN FinalizeAndSend([z EXCEPT !.want_init_cmd = FALSE],
                          "init", PACKET_DEV_TPAD, 0, sts)
     ELSE IF s.want_cl_led_on # s.have_cl_led_on
     THEN FinalizeAndSend([z EXCEPT !.have_cl_led_on = s.want_cl_led_on],
                          "capsl", PACKET_DEV_KEYB,
                          IF s.want_cl_led_on THEN 2 ELSE 0, sts)
     ELSE IF s.want_bl_level # s.have_bl_level
     THEN FinalizeAndSend([z EXCEPT !.have_bl_level = s.want_bl_level],
                          "bl", PACKET_DEV_KEYB, s.want_bl_level, sts)
     ELSE FinalizeAndSend(z, "none", 0, 0, sts)

\* faulty variant of BuildAndSend: the applied values are not updated and
\* want_init_cmd is not cleared, so what was sent stays pending
BuildAndSend_keeps_pending(s, sts) ==
  LET z == [s EXCEPT !.tx_cmd = NoCmd]
  IN IF s.want_init_cmd
     THEN FinalizeAndSend(z, "init", PACKET_DEV_TPAD, 0, sts)
     ELSE IF s.want_cl_led_on # s.have_cl_led_on
     THEN FinalizeAndSend(z, "capsl", PACKET_DEV_KEYB,
                          IF s.want_cl_led_on THEN 2 ELSE 0, sts)
     ELSE IF s.want_bl_level # s.have_bl_level
     THEN FinalizeAndSend(z, "bl", PACKET_DEV_KEYB, s.want_bl_level, sts)
     ELSE z

\* faulty variant of BuildAndSend: the command carries the value applied
\* before, not the one wanted now
BuildAndSend_sends_applied(s, sts) ==
  LET z == [s EXCEPT !.tx_cmd = NoCmd]
  IN IF s.want_init_cmd
     THEN FinalizeAndSend([z EXCEPT !.want_init_cmd = FALSE],
                          "init", PACKET_DEV_TPAD, 0, sts)
     ELSE IF s.want_cl_led_on # s.have_cl_led_on
     THEN FinalizeAndSend([z EXCEPT !.have_cl_led_on = s.want_cl_led_on],
                          "capsl", PACKET_DEV_KEYB,
                          IF s.have_cl_led_on THEN 2 ELSE 0, sts)
     ELSE IF s.want_bl_level # s.have_bl_level
     THEN FinalizeAndSend([z EXCEPT !.have_bl_level = s.want_bl_level],
                          "bl", PACKET_DEV_KEYB, s.have_bl_level, sts)
     ELSE z

\* lines 890-972: build the next command, if any is pending, and send it
BuildAndSend(s, sts) ==
  LET z == [s EXCEPT !.tx_cmd = NoCmd]
  IN IF s.want_init_cmd
     THEN FinalizeAndSend([z EXCEPT !.want_init_cmd = FALSE],
                          "init", PACKET_DEV_TPAD, 0, sts)
     ELSE IF s.want_cl_led_on # s.have_cl_led_on
     THEN FinalizeAndSend([z EXCEPT !.have_cl_led_on = s.want_cl_led_on],
                          "capsl", PACKET_DEV_KEYB,
                          IF s.want_cl_led_on THEN 2 ELSE 0, sts)
     ELSE IF s.want_bl_level # s.have_bl_level
     THEN FinalizeAndSend([z EXCEPT !.have_bl_level = s.want_bl_level],
                          "bl", PACKET_DEV_KEYB, s.want_bl_level, sts)
     ELSE z

\* faulty variant of applespi_send_cmd_msg: no test of cmd_msg_queued (line 887)
send_cmd_msg_ignoring_queued(s, sts) ==
  IF s.drain THEN s ELSE BuildAndSend(s, sts)

\* faulty variant of applespi_send_cmd_msg: no test of drain (line 883)
send_cmd_msg_ignoring_drain(s, sts) ==
  IF s.cmd_msg_queued THEN s ELSE BuildAndSend(s, sts)

\* lines 873-973
applespi_send_cmd_msg(s, sts) ==
  IF s.drain THEN s
  ELSE IF s.cmd_msg_queued THEN s
  ELSE BuildAndSend(s, sts)

\* faulty variant of applespi_msg_complete: applespi_send_cmd_msg is not
\* called (line 848)
msg_complete_without_send(s, is_write_msg, is_read_compl, sts) ==
  LET a == [s EXCEPT !.read_active = IF is_read_compl THEN FALSE ELSE @,
                     !.write_active = IF is_write_msg THEN FALSE ELSE @]
      w == [a EXCEPT !.woken = IF a.drain /\ ~a.write_active THEN TRUE ELSE @]
  IN IF is_write_msg THEN [w EXCEPT !.cmd_msg_queued = FALSE] ELSE w

\* faulty variant of applespi_msg_complete: write_active is not cleared
\* (line 841)
msg_complete_keeps_write_active(s, is_write_msg, is_read_compl, sts) ==
  LET a == [s EXCEPT !.read_active = IF is_read_compl THEN FALSE ELSE @]
      w == [a EXCEPT !.woken = IF a.drain /\ ~a.write_active THEN TRUE ELSE @]
  IN IF is_write_msg
     THEN applespi_send_cmd_msg([w EXCEPT !.cmd_msg_queued = FALSE], sts)
     ELSE w

\* lines 831-852
applespi_msg_complete(s, is_write_msg, is_read_compl, sts) ==
  LET a == [s EXCEPT !.read_active = IF is_read_compl THEN FALSE ELSE @,
                     !.write_active = IF is_write_msg THEN FALSE ELSE @]
      w == [a EXCEPT !.woken = IF a.drain /\ ~a.write_active THEN TRUE ELSE @]
  IN IF is_write_msg
     THEN applespi_send_cmd_msg([w EXCEPT !.cmd_msg_queued = FALSE], sts)
     ELSE w

\* faulty variant of bl_level: 0 is scaled like every other value
bl_level_zero_scaled(value) ==
  (value * KBD_BL_LEVEL_ADJ) \div KBD_BL_LEVEL_SCALE + MIN_KBD_BL_LEVEL

\* faulty variant of bl_level: the value is shifted by MIN_KBD_BL_LEVEL and
\* not scaled
bl_level_unscaled(value) ==
  IF value = 0 THEN 0 ELSE value + MIN_KBD_BL_LEVEL

\* the scaling of applespi_set_bl_level (lines 1014-1024); the product and
\* the quotient are computed in int and truncated
bl_level(value) ==
  IF value = 0 THEN 0
  ELSE (value * KBD_BL_LEVEL_ADJ) \div KBD_BL_LEVEL_SCALE + MIN_KBD_BL_LEVEL

\* faulty variant of applespi_init: want_init_cmd is not set
applespi_init_no_flag(s, sts) == applespi_send_cmd_msg(s, sts)

\* applespi_init with cmd_msg_lock held
applespi_init(s, sts) ==
  applespi_send_cmd_msg([s EXCEPT !.want_init_cmd = TRUE], sts)

\* applespi_set_capsl_led with cmd_msg_lock held
applespi_set_capsl_led(s, capslock_on, sts) ==
  applespi_send_cmd_msg([s EXCEPT !.want_cl_led_on = capslock_on], sts)

\* applespi_set_bl_level with cmd_msg_lock held
applespi_set_bl_level(s, value, sts) ==
  applespi_send_cmd_msg([s EXCEPT !.want_bl_level = bl_level(value)], sts)

(***************************************************************************)
(* applespi_got_data: what it decides from the packet header and from the  *)
(* checks on the bytes.  crc_ok is applespi_verify_crc on the 256 bytes of *)
(* rx_buffer; mlen, mcrc_ok and nfing are read from the message once it is *)
(* whole (message->length, applespi_verify_crc on the message,             *)
(* number_of_fingers) and are looked at only then.  The result says what   *)
(* becomes of saved_msg_len, whether the packet data was copied into       *)
(* msg_buf, which handler ran, and whether the cleanup label (and so       *)
(* applespi_msg_complete) was reached.                                     *)
(***************************************************************************)
GotDataResult(res, saved, copy, handler, cleanup) ==
  [res |-> res, saved_msg_len |-> saved, copy |-> copy, handler |-> handler,
   cleanup |-> cleanup]

\* faulty variant of length_mismatch: the difference is cut to 16 bits
length_mismatch_u16(mlen, msg_len) ==
  mlen # (msg_len - MSG_HEADER_SIZE - 2) % (U16_MAX + 1)

\* line 1388: le16_to_cpu(message->length) != msg_len - MSG_HEADER_SIZE - 2.
\* MSG_HEADER_SIZE is an offsetof, so the difference is unsigned and wider
\* than 16 bits: lo is its low 16 bits and hi the 16 bits above them, which
\* are all ones when msg_len is below 10 and the subtraction borrows
length_mismatch(mlen, msg_len) ==
  LET d == msg_len - MSG_HEADER_SIZE - 2
      lo == d % (U16_MAX + 1)
      hi == IF d < 0 THEN U16_MAX ELSE d \div (U16_MAX + 1)
  IN ~(hi = 0 /\ lo = mlen)

\* faulty variant of got_message: the message crc is not verified
got_message_no_crc(flags, device, msg_len, copy, mlen, mcrc_ok, nfing) ==
  IF length_mismatch(mlen, msg_len)
  THEN GotDataResult("LengthMismatch", 0, copy, "none", TRUE)
  ELSE IF flags = PACKET_TYPE_READ /\ device = PACKET_DEV_KEYB
  THEN GotDataResult("Complete", 0, copy, "keyboard", TRUE)
  ELSE IF flags = PACKET_TYPE_READ /\ device = PACKET_DEV_TPAD
  THEN IF mlen + 2 # TP_HEADER_SIZE + nfing * TP_FINGER_SIZE
       THEN GotDataResult("TouchpadLengthMismatch", 0, copy, "none", TRUE)
       ELSE GotDataResult("Complete", 0, copy, "touchpad", TRUE)
  ELSE IF flags = PACKET_TYPE_WRITE
  THEN GotDataResult("Complete", 0, copy, "cmd_response", TRUE)
  ELSE GotDataResult("Complete", 0, copy, "none", TRUE)

\* lines 1385-1426: the message is whole
got_message(flags, device, msg_len, copy, mlen, mcrc_ok, nfing) ==
  IF length_mismatch(mlen, msg_len)
  THEN GotDataResult("LengthMismatch", 0, copy, "none", TRUE)
  ELSE IF ~mcrc_ok
  THEN GotDataResult("ChecksumMismatch", 0, copy, "none", TRUE)
  ELSE IF flags = PACKET_TYPE_READ /\ device = PACKET_DEV_KEYB
  THEN GotDataResult("Complete", 0, copy, "keyboard", TRUE)
  ELSE IF flags = PACKET_TYPE_READ /\ device = PACKET_DEV_TPAD
  THEN IF mlen + 2 # TP_HEADER_SIZE + nfing * TP_FINGER_SIZE
       THEN GotDataResult("TouchpadLengthMismatch", 0, copy, "none", TRUE)
       ELSE GotDataResult("Complete", 0, copy, "touchpad", TRUE)
  ELSE IF flags = PACKET_TYPE_WRITE
  THEN GotDataResult("Complete", 0, copy, "cmd_response", TRUE)
  ELSE GotDataResult("Complete", 0, copy, "none", TRUE)

\* faulty variant of applespi_got_data: every packet goes through msg_buf,
\* also one with offset 0 and remaining 0
got_data_always_saved(saved, crc_ok, flags, device, off, rem, len, mlen, mcrc_ok, nfing) ==
  IF ~crc_ok
  THEN GotDataResult("FrameChecksumMismatch", saved, FALSE, "none", FALSE)
  ELSE IF len > PACKET_DATA_SIZE
  THEN GotDataResult("InvalidPacketLength", saved, FALSE, "none", TRUE)
  ELSE IF off # saved
  THEN GotDataResult("UnexpectedOffset", saved, FALSE, "none", TRUE)
  ELSE IF off + rem > MSG_BUF_SIZE
  THEN GotDataResult("MessageTooLarge", saved, FALSE, "none", TRUE)
  ELSE IF off + len > MSG_BUF_SIZE
  THEN GotDataResult("MessageTooLarge", saved, FALSE, "none", TRUE)
  ELSE IF rem > 0
  THEN GotDataResult("Incomplete", saved + len, TRUE, "none", FALSE)
  ELSE got_message(flags, device, saved + len, TRUE, mlen, mcrc_ok, nfing)

\* faulty variant of applespi_got_data: offset + length is not tested against
\* the size of msg_buf (lines 1365-1370)
got_data_no_length_test(saved, crc_ok, flags, device, off, rem, len, mlen, mcrc_ok, nfing) ==
  IF ~crc_ok
  THEN GotDataResult("FrameChecksumMismatch", saved, FALSE, "none", FALSE)
  ELSE IF len > PACKET_DATA_SIZE
  THEN GotDataResult("InvalidPacketLength", saved, FALSE, "none", TRUE)
  ELSE IF rem > 0 \/ off > 0
  THEN IF off # saved
       THEN GotDataResult("UnexpectedOffset", saved, FALSE, "none", TRUE)
       ELSE IF off + rem > MSG_BUF_SIZE
       THEN GotDataResult("MessageTooLarge", saved, FALSE, "none", TRUE)
       ELSE IF rem > 0
       THEN GotDataResult("Incomplete", saved + len, TRUE, "none", FALSE)
       ELSE got_message(flags, device, saved + len, TRUE, mlen, mcrc_ok, nfing)
  ELSE got_message(flags, device, len, FALSE, mlen, mcrc_ok, nfing)

\* lines 1307-1439
applespi_got_data(saved, crc_ok, flags, device, off, rem, len, mlen, mcrc_ok, nfing) ==
  IF ~crc_ok
  THEN GotDataResult("FrameChecksumMismatch", saved, FALSE, "none", FALSE)
  ELSE IF len > PACKET_DATA_SIZE
  THEN GotDataResult("InvalidPacketLength", saved, FALSE, "none", TRUE)
  ELSE IF rem > 0 \/ off > 0
  THEN IF off # saved
       THEN GotDataResult("UnexpectedOffset", saved, FALSE, "none", TRUE)
       ELSE IF off + rem > MSG_BUF_SIZE
       THEN GotDataResult("MessageTooLarge", saved, FALSE, "none", TRUE)
       ELSE IF off + len > MSG_BUF_SIZE
       THEN GotDataResult("MessageTooLarge", saved, FALSE, "none", TRUE)
       ELSE IF rem > 0
       THEN GotDataResult("Incomplete", saved + len, TRUE, "none", FALSE)
       ELSE got_message(flags, device, saved + len, TRUE, mlen, mcrc_ok, nfing)
  ELSE got_message(flags, device, len, FALSE, mlen, mcrc_ok, nfing)

(***************************************************************************)
(* The packets the device returns in Spec: header fields and check         *)
(* outcomes.  The driver does not choose them.                             *)
(***************************************************************************)
DevPkt(crc_ok, flags, device, off, rem, len, mlen, mcrc_ok, nfing) ==
  [crc_ok |-> crc_ok, flags |-> flags, device |-> device, off |-> off,
   rem |-> rem, len |-> len, mlen |-> mlen, mcrc_ok |-> mcrc_ok, nfing |-> nfing]

DevPkts ==
  { DevPkt(TRUE, PACKET_TYPE_READ, PACKET_DEV_KEYB, 0, 0, 20, 10, TRUE, 0),    \* keyboard report
    DevPkt(TRUE, PACKET_TYPE_WRITE, PACKET_DEV_KEYB, 0, 0, 10, 0, TRUE, 0),    \* command response
    DevPkt(TRUE, PACKET_TYPE_WRITE, PACKET_DEV_KEYB, 0, 0, 10, 0, FALSE, 0),   \* response, message crc wrong
    DevPkt(FALSE, PACKET_TYPE_WRITE, PACKET_DEV_KEYB, 0, 0, 10, 0, TRUE, 0),   \* response, packet crc wrong
    DevPkt(FALSE, PACKET_TYPE_READ, PACKET_DEV_KEYB, 0, 0, 20, 10, TRUE, 0),   \* report, packet crc wrong
    DevPkt(TRUE, PACKET_TYPE_READ, PACKET_DEV_TPAD, 0, 50, 246, 0, TRUE, 0),   \* first part of 296 bytes
    DevPkt(TRUE, PACKET_TYPE_READ, PACKET_DEV_TPAD, 246, 0, 50, 286, TRUE, 8)  \* second part
  }

(***************************************************************************)
(* Spec: the exchange coordinator                                          *)
(***************************************************************************)
NoWire == <<>>

WireIdle ==
  /\ rx_buffer = NoWire /\ tx_buffer = NoWire /\ msg_buf = NoWire
  /\ rx_result = NoWire /\ trail = NoWire

\* what a handler did: its name, whether it submitted a write transfer (it
\* built a command and spi_async took it), and the command of the write
\* exchange it resolved, if any
Event(op, res, s) ==
  [op |-> op, sub |-> s.cmd_msg_cntr # cmd_msg_cntr /\ s.cmd_msg_queued,
   res |-> res]

\* a step of the suspend / remove / resume caller outside applespi_init
PmEvent == [op |-> "pm", sub |-> FALSE, res |-> "none"]

\* applespi_resume resetting the flags: the one step that changes them
\* without taking cmd_msg_lock
ResumeEvent == [op |-> "resume", sub |-> FALSE, res |-> "none"]

NumQueued(t) == Cardinality({i \in DOMAIN spi_queue : spi_queue[i].t = t})

\* the coordinator as applespi_probe finds it: the structure is zeroed by
\* devm_kzalloc, the GPE handler is installed and enabled
CoordInit ==
  /\ want_init_cmd = FALSE /\ want_cl_led_on = FALSE /\ have_cl_led_on = FALSE
  /\ want_bl_level = 0 /\ have_bl_level = 0 /\ cmd_msg_cntr = 0
  /\ cmd_msg_queued = FALSE /\ drain = FALSE
  /\ read_active = FALSE /\ write_active = FALSE
  /\ tx_cmd = NoCmd /\ spi_queue = <<>>
  /\ gpe_enabled = TRUE /\ pm_pc = "probe" /\ pm_op = "none" /\ woken = FALSE
  /\ awaiting_ack = <<>>
  /\ last_event = [op |-> "probe", sub |-> FALSE, res |-> "none"]

Init == CoordInit /\ saved_msg_len = 0 /\ WireIdle

\* applespi_probe, line 1687: switch the touchpad into multitouch mode
ProbeInit(sts) ==
  /\ pm_pc = "probe"
  /\ LET s == applespi_init(Locked, sts)
     IN Store(s) /\ last_event' = Event("init", "none", s)
  /\ pm_pc' = "running"
  /\ UNCHANGED <<saved_msg_len, gpe_enabled, pm_op, awaiting_ack, wire_vars>>

\* applespi_event, EV_LED: the input core sets the caps-lock led
SetCapslLed(capslock_on, sts) ==
  /\ pm_pc # "removed"
  /\ cmd_msg_cntr < MaxCmds
  /\ LET s == applespi_set_capsl_led(Locked, capslock_on, sts)
     IN Store(s) /\ last_event' = Event("capsl", "none", s)
  /\ UNCHANGED <<saved_msg_len, gpe_enabled, pm_pc, pm_op, awaiting_ack, wire_vars>>

\* brightness_set of the backlight class device (registered after applespi_init)
SetBlLevel(value, sts) ==
  /\ pm_pc \notin {"probe", "removed"}
  /\ cmd_msg_cntr < MaxCmds
  /\ LET s == applespi_set_bl_level(Locked, value, sts)
     IN Store(s) /\ last_event' = Event("bl", "none", s)
  /\ UNCHANGED <<saved_msg_len, gpe_enabled, pm_pc, pm_op, awaiting_ack, wire_vars>>

\* applespi_notify: the GPE fired
applespi_notify(s, sts) ==
  LET q == [s EXCEPT !.spi_queue = applespi_async(s.spi_queue, RdXfer, sts)]
  IN IF sts # 0 THEN q ELSE [q EXCEPT !.read_active = TRUE]

Notify(sts) ==
  /\ gpe_enabled
  /\ NumQueued("rd") < MaxReads
  /\ LET s == applespi_notify(Locked, sts)
     IN Store(s) /\ last_event' = Event("notify", "none", s)
  /\ UNCHANGED <<saved_msg_len, gpe_enabled, pm_pc, pm_op, awaiting_ack, wire_vars>>

\* faulty variant of got_data_locked: the cleanup label passes is_write_msg =
\* true whatever the packet's flags are
got_data_locked_any_flags(s, pkt, r, sts) ==
  IF ~pkt.crc_ok
  THEN IF s.drain
       THEN [s EXCEPT !.read_active = FALSE, !.write_active = FALSE, !.woken = TRUE]
       ELSE s
  ELSE IF r.cleanup
  THEN applespi_msg_complete(s, TRUE, TRUE, sts)
  ELSE s

\* applespi_got_data on a packet of Spec, with what follows under cmd_msg_lock:
\* lines 1321-1330 when the packet crc is wrong, applespi_msg_complete at cleanup
got_data_locked(s, pkt, r, sts) ==
  IF ~pkt.crc_ok
  THEN IF s.drain
       THEN [s EXCEPT !.read_active = FALSE, !.write_active = FALSE, !.woken = TRUE]
       ELSE s
  ELSE IF r.cleanup
  THEN applespi_msg_complete(s, pkt.flags = PACKET_TYPE_WRITE, TRUE, sts)
  ELSE s

\* applespi_async_read_complete with rd_m.status < 0: the read at the head of
\* the queue failed
ReadError ==
  /\ spi_queue # <<>> /\ Head(spi_queue).t = "rd"
  /\ spi_queue' = Tail(spi_queue)
  /\ last_event' = [op |-> "read_error", sub |-> FALSE, res |-> "none"]
  /\ UNCHANGED <<want_init_cmd, want_cl_led_on, have_cl_led_on, want_bl_level,
                 have_bl_level, cmd_msg_cntr, cmd_msg_queued, drain, read_active,
                 write_active, tx_cmd, woken, saved_msg_len, gpe_enabled, pm_pc,
                 pm_op, awaiting_ack, wire_vars>>

\* A packet flagged PACKET_TYPE_WRITE is the device's response to a command it
\* received (protocol description, lines 33-35): the device sends one only
\* while it owes a response, and it sends one response per command, whether
\* or not the packet reaches the driver with its crc intact.
ReadComplete(pkt, sts) ==
  /\ spi_queue # <<>> /\ Head(spi_queue).t = "rd"
  /\ pkt.flags = PACKET_TYPE_WRITE => awaiting_ack # <<>>
  /\ LET r == applespi_got_data(saved_msg_len, pkt.crc_ok, pkt.flags, pkt.device,
                                pkt.off, pkt.rem, pkt.len, pkt.mlen, pkt.mcrc_ok,
                                pkt.nfing)
         s == got_data_locked([Locked EXCEPT !.spi_queue = Tail(spi_queue)],
                              pkt, r, sts)
         acked == pkt.crc_ok /\ r.cleanup /\ pkt.flags = PACKET_TYPE_WRITE
     IN /\ Store(s)
        /\ saved_msg_len' = r.saved_msg_len
        /\ awaiting_ack' = IF pkt.flags = PACKET_TYPE_WRITE
                           THEN Tail(awaiting_ack) ELSE awaiting_ack
        /\ last_event' = Event(IF ~pkt.crc_ok THEN "read_bad_crc"
                               ELSE IF acked /\ r.res = "Complete" THEN "read_response"
                               ELSE IF acked THEN "read_response_rejected"
                               ELSE IF r.cleanup THEN "read_message"
                               ELSE "read_incomplete",
                               IF acked THEN Head(awaiting_ack) ELSE "none", s)
  /\ UNCHANGED <<gpe_enabled, pm_pc, pm_op, wire_vars>>

\* wr_m.status as the SPI core leaves it: 0, or an error
WrStatuses == {0, -5}

\* sts_ok of applespi_check_write_status: 0xac 0x27 0x68 0xd5
sts_ok == <<172, 39, 104, 213>>

\* what the transfer may leave in tx_status
TxStatuses == {sts_ok, <<0, 0, 0, 0>>, <<172, 39, 104, 212>>}

\* faulty variant of applespi_check_write_status: tx_status is not compared
check_write_status_sts_only(wr_status, tx_status) == wr_status >= 0

\* lines 624-642
applespi_check_write_status(wr_status, tx_status) ==
  IF wr_status < 0 THEN FALSE
  ELSE \A i \in 1..APPLESPI_STATUS_SIZE : tx_status[i] = sts_ok[i]

\* faulty variant of async_write_complete: applespi_msg_complete is called
\* after every write
async_write_complete_always(s, wr_status, tx_status, sts) ==
  applespi_msg_complete(s, TRUE, FALSE, sts)

\* applespi_async_write_complete: the write at the head of the queue is done
async_write_complete(s, wr_status, tx_status, sts) ==
  IF ~applespi_check_write_status(wr_status, tx_status)
  THEN applespi_msg_complete(s, TRUE, FALSE, sts)
  ELSE s

\* the device received the command and will send its response
WriteAccepted(wr_status, tx_status) == wr_status >= 0 /\ tx_status = sts_ok

\* how the write transfer ended
WriteOutcome(wr_status, tx_status) ==
  IF wr_status < 0 THEN "write_failed"
  ELSE IF tx_status # sts_ok THEN "write_bad_status"
  ELSE "write_ok"

WriteComplete(wr_status, tx_status, sts) ==
  /\ spi_queue # <<>> /\ Head(spi_queue).t = "wr"
  /\ LET s == async_write_complete([Locked EXCEPT !.spi_queue = Tail(spi_queue)],
                                   wr_status, tx_status, sts)
     IN /\ Store(s)
        /\ last_event' = Event(WriteOutcome(wr_status, tx_status),
                               IF WriteAccepted(wr_status, tx_status) THEN "none"
                               ELSE Head(spi_queue).kind, s)
  /\ awaiting_ack' = IF WriteAccepted(wr_status, tx_status)
                     THEN Append(awaiting_ack, Head(spi_queue).kind)
                     ELSE awaiting_ack
  /\ UNCHANGED <<saved_msg_len, gpe_enabled, pm_pc, pm_op, wire_vars>>

(***************************************************************************)
(* applespi_suspend / applespi_remove.  wait_event_lock_irq tests the      *)
(* condition with the lock held; when it is false the caller sleeps on     *)
(* drain_complete with the lock released and tests again once woken.       *)
(***************************************************************************)
\* lines 1714-1720 / 1748-1754 up to the first test of !write_active
DrainBegin(op) ==
  /\ pm_pc = "running"
  /\ pm_op' = op
  /\ drain' = TRUE
  /\ woken' = FALSE
  /\ pm_pc' = IF ~write_active THEN "disable_gpe" ELSE "wait_write"
  /\ last_event' = PmEvent
  /\ UNCHANGED <<want_init_cmd, want_cl_led_on, have_cl_led_on, want_bl_level,
                 have_bl_level, cmd_msg_cntr, cmd_msg_queued, read_active,
                 write_active, tx_cmd, spi_queue, saved_msg_len, gpe_enabled,
                 awaiting_ack, wire_vars>>

\* the sleeper of the first wait was woken and tests !write_active again
DrainWriteWoken ==
  /\ pm_pc = "wait_write" /\ woken
  /\ woken' = FALSE
  /\ pm_pc' = IF ~write_active THEN "disable_gpe" ELSE "wait_write"
  /\ last_event' = PmEvent
  /\ UNCHANGED <<want_init_cmd, want_cl_led_on, have_cl_led_on, want_bl_level,
                 have_bl_level, cmd_msg_cntr, cmd_msg_queued, drain, read_active,
                 write_active, tx_cmd, spi_queue, saved_msg_len, gpe_enabled,
                 pm_op, awaiting_ack, wire_vars>>

\* faulty variant of DrainDisableGpe: acpi_disable_gpe is not called
DrainDisableGpe_gpe_stays ==
  /\ pm_pc = "disable_gpe"
  /\ woken' = FALSE
  /\ pm_pc' = IF ~read_active THEN "drained" ELSE "wait_read"
  /\ last_event' = PmEvent
  /\ UNCHANGED <<want_init_cmd, want_cl_led_on, have_cl_led_on, want_bl_level,
                 have_bl_level, cmd_msg_cntr, cmd_msg_queued, drain, read_active,
                 write_active, tx_cmd, spi_queue, saved_msg_len, pm_op,
                 gpe_enabled, awaiting_ack, wire_vars>>

\* acpi_disable_gpe (and acpi_remove_gpe_handler), then lines 1727-1730 /
\* 1764-1767 up to the first test of !read_active
DrainDisableGpe ==
  /\ pm_pc = "disable_gpe"
  /\ gpe_enabled' = FALSE
  /\ woken' = FALSE
  /\ pm_pc' = IF ~read_active THEN "drained" ELSE "wait_read"
  /\ last_event' = PmEvent
  /\ UNCHANGED <<want_init_cmd, want_cl_led_on, have_cl_led_on, want_bl_level,
                 have_bl_level, cmd_msg_cntr, cmd_msg_queued, drain, read_active,
                 write_active, tx_cmd, spi_queue, saved_msg_len, pm_op,
                 awaiting_ack, wire_vars>>

\* the sleeper of the second wait was woken and tests !read_active again
DrainReadWoken ==
  /\ pm_pc = "wait_read" /\ woken
  /\ woken' = FALSE
  /\ pm_pc' = IF ~read_active THEN "drained" ELSE "wait_read"
  /\ last_event' = PmEvent
  /\ UNCHANGED <<want_init_cmd, want_cl_led_on, have_cl_led_on, want_bl_level,
                 have_bl_level, cmd_msg_cntr, cmd_msg_queued, drain, read_active,
                 write_active, tx_cmd, spi_queue, saved_msg_len, gpe_enabled,
                 pm_op, awaiting_ack, wire_vars>>

\* applespi_suspend / applespi_remove return
DrainReturn ==
  /\ pm_pc = "drained"
  /\ pm_pc' = IF pm_op = "remove" THEN "removed" ELSE "suspended"
  /\ last_event' = PmEvent
  /\ UNCHANGED <<want_init_cmd, want_cl_led_on, have_cl_led_on, want_bl_level,
                 have_bl_level, cmd_msg_cntr, cmd_msg_queued, drain, read_active,
                 write_active, tx_cmd, spi_queue, woken, saved_msg_len,
                 gpe_enabled, pm_op, awaiting_ack, wire_vars>>

\* faulty variant of ResumeReset: the applied values are not reset
\* (lines 1782-1783)
ResumeReset_keeps_applied ==
  /\ pm_pc = "suspended"
  /\ spi_queue = <<>>
  /\ cmd_msg_cntr < MaxCmds
  /\ drain' = FALSE
  /\ cmd_msg_queued' = FALSE
  /\ read_active' = FALSE
  /\ write_active' = FALSE
  /\ gpe_enabled' = TRUE
  /\ awaiting_ack' = <<>>
  /\ pm_pc' = "resume_init"
  /\ last_event' = ResumeEvent
  /\ UNCHANGED <<want_init_cmd, want_cl_led_on, want_bl_level, cmd_msg_cntr,
                 have_cl_led_on, have_bl_level,
                 tx_cmd, spi_queue, woken, saved_msg_len, pm_op, wire_vars>>

\* applespi_resume, lines 1781-1797: the flags are reset without the lock,
\* then the GPE is enabled again; the assignments are taken as one step, a
\* request comes before or after them.  The system resumes after the SPI
\* controller was suspended, which empties its queue, and the device starts
\* afresh: it owes no response.
ResumeReset ==
  /\ pm_pc = "suspended"
  /\ spi_queue = <<>>
  /\ cmd_msg_cntr < MaxCmds
  /\ drain' = FALSE
  /\ have_cl_led_on' = FALSE
  /\ have_bl_level' = 0
  /\ cmd_msg_queued' = FALSE
  /\ read_active' = FALSE
  /\ write_active' = FALSE
  /\ gpe_enabled' = TRUE
  /\ awaiting_ack' = <<>>
  /\ pm_pc' = "resume_init"
  /\ last_event' = ResumeEvent
  /\ UNCHANGED <<want_init_cmd, want_cl_led_on, want_bl_level, cmd_msg_cntr,
                 tx_cmd, spi_queue, woken, saved_msg_len, pm_op, wire_vars>>

\* applespi_resume, line 1800: applespi_init
ResumeInit(sts) ==
  /\ pm_pc = "resume_init"
  /\ LET s == applespi_init(Locked, sts)
     IN Store(s) /\ last_event' = Event("init", "none", s)
  /\ pm_pc' = "running"
  /\ UNCHANGED <<saved_msg_len, gpe_enabled, pm_op, awaiting_ack, wire_vars>>

Next ==
  \/ \E sts \in AsyncSts : ProbeInit(sts)
  \/ \E on \in BOOLEAN, sts \in AsyncSts : SetCapslLed(on, sts)
  \/ \E value \in BlValues, sts \in AsyncSts : SetBlLevel(value, sts)
  \/ \E sts \in AsyncSts : Notify(sts)
  \/ ReadError
  \/ \E pkt \in DevPkts, sts \in AsyncSts : ReadComplete(pkt, sts)
  \/ \E wr_status \in WrStatuses, tx_status \in TxStatuses, sts \in AsyncSts :
       WriteComplete(wr_status, tx_status, sts)
  \/ \E op \in {"suspend", "remove"} : DrainBegin(op)
  \/ DrainWriteWoken
  \/ DrainDisableGpe
  \/ DrainReadWoken
  \/ DrainReturn
  \/ ResumeReset
  \/ \E sts \in AsyncSts : ResumeInit(sts)

Spec == Init /\ [][Next]_vars

\* The SPI core completes every message it accepted, and a caller that is
\* runnable in applespi_suspend / applespi_remove runs.
Completion ==
  \/ ReadError
  \/ \E pkt \in DevPkts, sts \in AsyncSts : ReadComplete(pkt, sts)
  \/ \E wr_status \in WrStatuses, tx_status \in TxStatuses, sts \in AsyncSts :
       WriteComplete(wr_status, tx_status, sts)

DrainStep == DrainWriteWoken \/ DrainDisableGpe \/ DrainReadWoken \/ DrainReturn

FairSpec == Spec /\ WF_vars(Completion) /\ WF_vars(DrainStep)

(***************************************************************************)
(* Bytes.  crc16 is the kernel's CRC-16 (reflected polynomial 0xA001,      *)
(* initial value 0, one table lookup per byte); buffers are sequences of   *)
(* bytes, the struct fields are read and written little-endian.            *)
(***************************************************************************)
RECURSIVE xorN(_, _, _)
\* exclusive or of two n-bit numbers
xorN(a, b, n) ==
  IF n = 0 THEN 0 ELSE ((a + b) % 2) + 2 * xorN(a \div 2, b \div 2, n - 1)

RECURSIVE crcbits(_, _)
crcbits(c, n) ==
  IF n = 0 THEN c
  ELSE crcbits(IF c % 2 = 1 THEN xorN(c \div 2, 40961, 16) ELSE c \div 2, n - 1)

RECURSIVE TableOf(_, _, _)
\* the tuple <<F(lo), ..., F(hi)>>
TableOf(F(_), lo, hi) ==
  IF lo = hi THEN <<F(lo)>>
  ELSE LET mid == (lo + hi) \div 2
       IN TableOf(F, lo, mid) \o TableOf(F, mid + 1, hi)

\* crc16_table[i], at index i + 1
crc16_table == LET F(i) == crcbits(i, 8) IN TableOf(F, 0, 255)

\* a ^ b for two bytes, at index a + 1, b + 1
xor8 == LET Row(a) == LET F(b) == xorN(a, b, 8) IN TableOf(F, 0, 255)
        IN TableOf(Row, 0, 255)

\* crc16_byte: (crc >> 8) ^ crc16_table[(crc ^ data) & 0xff]
crc16_byte(crc, data) ==
  LET t == crc16_table[xor8[(crc % 256) + 1][data + 1] + 1]
  IN xor8[(t % 256) + 1][(crc \div 256) + 1] + 256 * (t \div 256)

RECURSIVE crc16r(_, _, _, _)
\* the bytes lo..hi of buf, in order
crc16r(crc, buf, lo, hi) ==
  IF lo > hi THEN crc
  ELSE IF lo = hi THEN crc16_byte(crc, buf[lo])
  ELSE LET mid == (lo + hi) \div 2
           c1 == crc16r(crc, buf, lo, mid)
       IN IF c1 >= 0 THEN crc16r(c1, buf, mid + 1, hi) ELSE 0

\* crc16(crc, buffer, len) over the first len bytes
crc16(crc, buf, len) == crc16r(crc, buf, 1, len)

applespi_verify_crc(buffer, buflen) == crc16(0, buffer, buflen) = 0

\* the 16-bit field at byte i (from 1) of buf
le16_to_cpu(buf, i) == buf[i] + 256 * buf[i + 1]

cpu_to_le16(v) == <<v % 256, (v \div 256) % 256>>

Fill(n, b) == [i \in 1..n |-> b]

\* offsets (from 1) in struct spi_packet and struct message
PKT_HEADER_SIZE == APPLESPI_PACKET_SIZE - PACKET_DATA_SIZE - 2
PKT_FLAGS == 1
PKT_DEVICE == PKT_FLAGS + 1
PKT_OFFSET == PKT_DEVICE + 1
PKT_REMAINING == PKT_OFFSET + 2
PKT_LENGTH == PKT_REMAINING + 2
PKT_DATA == PKT_HEADER_SIZE + 1
MSG_LENGTH == MSG_HEADER_SIZE - 1
MSG_RSP_BUF_LEN == MSG_LENGTH - 2
\* number_of_fingers in message->touchpad: after unknown1[1], clicked, unknown2[28]
MSG_TP_NFINGERS == MSG_HEADER_SIZE + 1 + 1 + 28 + 1

(***************************************************************************)
(* applespi_got_data on the bytes of rx_buffer                             *)
(***************************************************************************)
\* faulty variant of memcpy_msg_buf: the data goes to the start of msg_buf
memcpy_msg_buf_at_start(mbuf, off, rx, len) ==
  [i \in 1..MSG_BUF_SIZE |-> IF i <= len THEN rx[PKT_DATA + (i - 1)] ELSE mbuf[i]]

\* memcpy(applespi->msg_buf + off, &packet->data, len)
memcpy_msg_buf(mbuf, off, rx, len) ==
  [i \in 1..MSG_BUF_SIZE |->
     IF i > off /\ i <= off + len THEN rx[PKT_DATA + (i - off - 1)] ELSE mbuf[i]]

\* where message points: msg_buf for a message in several packets, packet->data
\* otherwise (lines 1378-1383)
message_base(multi, mbuf, rx) ==
  IF multi THEN mbuf ELSE SubSeq(rx, PKT_DATA, PKT_DATA + PACKET_DATA_SIZE - 1)

NoResult == [res |-> "none", handler |-> "none", message |-> <<>>]

\* the outcome (GotDataResult), what msg_buf holds afterwards, and the message
\* handed to the handler
got_data_bytes(rx, saved, mbuf) ==
  LET crc_ok == applespi_verify_crc(rx, APPLESPI_PACKET_SIZE)
      off == le16_to_cpu(rx, PKT_OFFSET)
      rem == le16_to_cpu(rx, PKT_REMAINING)
      len == le16_to_cpu(rx, PKT_LENGTH)
      multi == rem > 0 \/ off > 0
      copied == memcpy_msg_buf(mbuf, off, rx, len)
      msg_len == IF multi THEN saved + len ELSE len
      base == message_base(multi, copied, rx)
      message == SubSeq(base, 1, msg_len)
      r == applespi_got_data(saved, crc_ok, rx[PKT_FLAGS], rx[PKT_DEVICE], off,
                             rem, len, le16_to_cpu(base, MSG_LENGTH),
                             applespi_verify_crc(message, msg_len),
                             base[MSG_TP_NFINGERS])
  IN [r |-> r, crc_ok |-> crc_ok, flags |-> rx[PKT_FLAGS],
      msg_buf |-> IF r.copy THEN copied ELSE mbuf,
      message |-> IF r.handler # "none" THEN message ELSE <<>>]

(***************************************************************************)
(* The packets of the device in RxSpec: three messages, two of them too    *)
(* long for one packet.                                                    *)
(***************************************************************************)
\* a message: header, payload, crc over both
DevMessage(type, counter, rsp_buf_len, payload) ==
  LET body == cpu_to_le16(type) \o <<0, counter>> \o cpu_to_le16(rsp_buf_len)
              \o cpu_to_le16(Len(payload)) \o payload
  IN body \o cpu_to_le16(crc16(0, body, Len(body)))

\* a packet carrying data at offset off of its message, rem bytes following
DevPacket(flags, device, off, rem, data) ==
  LET p == <<flags, device>> \o cpu_to_le16(off) \o cpu_to_le16(rem)
           \o cpu_to_le16(Len(data)) \o data
           \o [i \in 1..(PACKET_DATA_SIZE - Len(data)) |-> 0]
  IN p \o cpu_to_le16(crc16(0, p, Len(p)))

\* the packets of a message, PACKET_DATA_SIZE bytes each but the last
RECURSIVE DevSplit(_, _, _, _)
DevSplit(flags, device, msg, off) ==
  IF Len(msg) - off <= PACKET_DATA_SIZE
  THEN <<DevPacket(flags, device, off, 0, SubSeq(msg, off + 1, Len(msg)))>>
  ELSE <<DevPacket(flags, device, off, Len(msg) - off - PACKET_DATA_SIZE,
                   SubSeq(msg, off + 1, off + PACKET_DATA_SIZE))>>
       \o DevSplit(flags, device, msg, off + PACKET_DATA_SIZE)

\* a keyboard message of 300 bytes, a touchpad message of 296 bytes with 8
\* fingers, a keyboard report of 20 bytes
RxMessages ==
  <<DevMessage(272, 5, 0, [i \in 1..290 |-> (i * 7 + 3) % 256]),
    DevMessage(528, 9, 0, [i \in 1..286 |-> IF i = 31 THEN 8 ELSE (i * 11 + 1) % 256]),
    DevMessage(272, 6, 0, [i \in 1..10 |-> (i * 13) % 256])>>

RxDevices == <<PACKET_DEV_KEYB, PACKET_DEV_TPAD, PACKET_DEV_KEYB>>

RxPackets ==
  <<DevSplit(PACKET_TYPE_READ, RxDevices[1], RxMessages[1], 0),
    DevSplit(PACKET_TYPE_READ, RxDevices[2], RxMessages[2], 0),
    DevSplit(PACKET_TYPE_READ, RxDevices[3], RxMessages[3], 0)>>

\* every packet of every message: message m, part k of n
RxFrames ==
  UNION {{[m |-> m, part |-> k, parts |-> Len(RxPackets[m])] :
            k \in 1..Len(RxPackets[m])} : m \in DOMAIN RxMessages}

\* what kmalloc may have left in a buffer
HeapFill == {0, 165}

\* the packets remembered in trail: one exchange and the packet before it
TrailLen == MAX_PKTS_PER_MSG + 1

LastOf(seq, n) ==
  IF Len(seq) <= n THEN seq ELSE SubSeq(seq, Len(seq) - n + 1, Len(seq))

RxInit ==
  /\ CoordInit
  /\ saved_msg_len = 0
  /\ \E b \in HeapFill :
       /\ rx_buffer = Fill(APPLESPI_PACKET_SIZE, b)
       /\ msg_buf = Fill(MSG_BUF_SIZE, b)
  /\ tx_buffer = NoWire
  /\ rx_result = NoResult
  /\ trail = <<>>

\* applespi_async_read_complete after the transfer put the packet f into
\* rx_buffer: applespi_got_data, and applespi_msg_complete at its cleanup
\* label (no command is pending here, so spi_async is not reached)
RxFeed(f) ==
  /\ rx_buffer' = RxPackets[f.m][f.part]
  /\ \E g \in {got_data_bytes(RxPackets[f.m][f.part], saved_msg_len, msg_buf)} :
       /\ LET s == got_data_locked(Locked, g, g.r, 0)
          IN Store(s) /\ last_event' = Event("read", "none", s)
       /\ saved_msg_len' = g.r.saved_msg_len
       /\ msg_buf' = g.msg_buf
       /\ rx_result' = [res |-> g.r.res, handler |-> g.r.handler,
                        message |-> g.message]
       /\ trail' = LastOf(Append(trail, [m |-> f.m, part |-> f.part,
                                          parts |-> f.parts,
                                          saved |-> saved_msg_len,
                                          res |-> g.r.res,
                                          copy |-> g.msg_buf # msg_buf]),
                          TrailLen)
  /\ UNCHANGED <<gpe_enabled, pm_pc, pm_op, awaiting_ack, tx_buffer>>

RxNext == \E f \in RxFrames : RxFeed(f)

RxSpec == RxInit /\ [][RxNext]_vars

(***************************************************************************)
(* applespi_got_data on packets whose header fields are anything the       *)
(* device may put on the wire: HdrSpec feeds it packets with every         *)
(* combination of the values below and keeps, in trail, the packet fed     *)
(* last and saved_msg_len as the call found it.                            *)
(***************************************************************************)
\* packet->offset and packet->remaining (both __le16).  246 and 492 are what
\* saved_msg_len is after one and two full packets
HdrOffsets == {0, PACKET_DATA_SIZE, 2 * PACKET_DATA_SIZE, U16_MAX}

HdrRemainings == {0, 20, MSG_BUF_SIZE - PACKET_DATA_SIZE, U16_MAX}

\* packet->length (__le16) in the packets that sweep the header
HdrLengths == {9, 20, 50, PACKET_DATA_SIZE, PACKET_DATA_SIZE + 1, U16_MAX}

\* packet->flags: read, write, neither
HdrFlags == {PACKET_TYPE_READ, PACKET_TYPE_WRITE, 0}

\* message->length: right for a message of 20, of 56 and of 296 bytes, and 7
HdrMsgLengths == {10, 46, 286, 7}

\* number_of_fingers: 0 fits a touchpad message of 56 bytes, 8 one of 296
HdrFingers == {0, 8}

\* the header sweep: touchpad packets whose crc is right, with every offset,
\* remaining and length
HdrSweep ==
  {DevPkt(TRUE, PACKET_TYPE_READ, PACKET_DEV_TPAD, off, rem, len, 286, TRUE, 8) :
     off \in HdrOffsets, rem \in HdrRemainings, len \in HdrLengths}

\* the message sweep: packets that end a message of 20, 56 or 296 bytes, with
\* every flag, device and outcome of the checks
HdrEnds ==
  {DevPkt(c[1], fd[1], fd[2], ol[1], 0, ol[2], mf[1], c[2], mf[2]) :
     c \in BOOLEAN \X BOOLEAN,
     fd \in HdrFlags \X {PACKET_DEV_KEYB, PACKET_DEV_TPAD},
     ol \in {<<0, 20>>, <<0, 56>>, <<PACKET_DATA_SIZE, 50>>},
     mf \in HdrMsgLengths \X HdrFingers}

\* the short sweep: packets that end a message of 0, 1, 8 or 9 bytes, alone
\* or (9 bytes) after a first packet of 4 bytes, for each of the three
\* handlers; message->length is small, or one of the 16-bit values that
\* msg_len - 10 ends in when msg_len is below 10
HdrShort ==
  {DevPkt(TRUE, fd[1], fd[2], ol[1], 0, ol[2], mlen, TRUE, 0) :
     fd \in {<<PACKET_TYPE_READ, PACKET_DEV_KEYB>>,
             <<PACKET_TYPE_READ, PACKET_DEV_TPAD>>,
             <<PACKET_TYPE_WRITE, PACKET_DEV_KEYB>>},
     ol \in ({0} \X {0, 1, MSG_HEADER_SIZE, MSG_HEADER_SIZE + 1}) \cup {<<4, 5>>},
     mlen \in {0, 7} \cup ((U16_MAX - MSG_HEADER_SIZE - 1)..U16_MAX)}
  \cup {DevPkt(TRUE, PACKET_TYPE_READ, PACKET_DEV_KEYB, 0, 5, 4, 0, TRUE, 0)}

HdrPkts == HdrSweep \cup HdrEnds \cup HdrShort

HdrInit ==
  /\ CoordInit
  /\ saved_msg_len = 0
  /\ rx_buffer = NoWire /\ tx_buffer = NoWire /\ msg_buf = NoWire
  /\ rx_result = NoWire
  /\ trail = <<>>

\* applespi_async_read_complete after the transfer put the packet pkt into
\* rx_buffer: applespi_got_data, and what it does under cmd_msg_lock (no
\* command is pending here, so spi_async is not reached)
HdrFeed(pkt) ==
  /\ \E r \in {applespi_got_data(saved_msg_len, pkt.crc_ok, pkt.flags, pkt.device,
                                 pkt.off, pkt.rem, pkt.len, pkt.mlen, pkt.mcrc_ok,
                                 pkt.nfing)} :
       /\ LET s == got_data_locked(Locked, pkt, r, 0)
          IN Store(s) /\ last_event' = Event("read", "none", s)
       /\ saved_msg_len' = r.saved_msg_len
       /\ rx_result' = r
  /\ trail' = <<[pkt |-> pkt, saved |-> saved_msg_len]>>
  /\ UNCHANGED <<gpe_enabled, pm_pc, pm_op, awaiting_ack, rx_buffer, tx_buffer,
                 msg_buf>>

HdrNext == \E pkt \in HdrPkts : HdrFeed(pkt)

HdrSpec == HdrInit /\ [][HdrNext]_vars

(***************************************************************************)
(* The command encoder, byte for byte, with a device that answers a        *)
(* command by sending back the packet it received.                         *)
(***************************************************************************)
\* message->type
cmd_type(kind) ==
  CASE kind = "init" -> 594       \* 0x0252
    [] kind = "capsl" -> 337      \* 0x0151
    [] kind = "bl" -> 45137       \* 0xB051

\* the command struct without its crc_16
cmd_payload(cmd) ==
  CASE cmd.kind = "init" -> cpu_to_le16(258)                 \* cmd = 0x0102
    [] cmd.kind = "capsl" -> <<1, cmd.val>>                  \* unknown, led
    [] cmd.kind = "bl" -> cpu_to_le16(432)                   \* const1 = 0x01B0
                          \o cpu_to_le16(cmd.val)            \* level
                          \o cpu_to_le16(IF cmd.val > 0 THEN 500 ELSE 1)

\* faulty variant of EncodePacket: the packet crc is computed over all 256
\* bytes, its own field (still zero) included
EncodePacket_crc_whole(cmd) ==
  IF cmd.kind = "none" THEN Fill(APPLESPI_PACKET_SIZE, 0)
  ELSE LET payload == cmd_payload(cmd)
           msg_len == Len(payload) + 2
           length == MSG_HEADER_SIZE + msg_len
           body == cpu_to_le16(cmd_type(cmd.kind)) \o <<0, cmd.counter>>
                   \o cpu_to_le16(msg_len - 2) \o cpu_to_le16(msg_len - 2)
                   \o payload
           message == body \o cpu_to_le16(crc16(0, body, length - 2))
           p == <<PACKET_TYPE_WRITE, cmd.device>> \o cpu_to_le16(0)
                \o cpu_to_le16(0) \o cpu_to_le16(length) \o message
                \o [i \in 1..(PACKET_DATA_SIZE - length) |-> 0]
       IN p \o cpu_to_le16(crc16(0, p \o <<0, 0>>, APPLESPI_PACKET_SIZE))

\* faulty variant of EncodePacket: rsp_buf_len is left zero
EncodePacket_no_rsp_buf_len(cmd) ==
  IF cmd.kind = "none" THEN Fill(APPLESPI_PACKET_SIZE, 0)
  ELSE LET payload == cmd_payload(cmd)
           msg_len == Len(payload) + 2
           length == MSG_HEADER_SIZE + msg_len
           body == cpu_to_le16(cmd_type(cmd.kind)) \o <<0, cmd.counter>>
                   \o cpu_to_le16(0) \o cpu_to_le16(msg_len - 2)
                   \o payload
           message == body \o cpu_to_le16(crc16(0, body, length - 2))
           p == <<PACKET_TYPE_WRITE, cmd.device>> \o cpu_to_le16(0)
                \o cpu_to_le16(0) \o cpu_to_le16(length) \o message
                \o [i \in 1..(PACKET_DATA_SIZE - length) |-> 0]
       IN p \o cpu_to_le16(crc16(0, p, APPLESPI_PACKET_SIZE - 2))

\* tx_buffer after lines 891-959 built cmd, or after the memset alone
EncodePacket(cmd) ==
  IF cmd.kind = "none" THEN Fill(APPLESPI_PACKET_SIZE, 0)
  ELSE LET payload == cmd_payload(cmd)
           msg_len == Len(payload) + 2
           length == MSG_HEADER_SIZE + msg_len
           body == cpu_to_le16(cmd_type(cmd.kind)) \o <<0, cmd.counter>>
                   \o cpu_to_le16(msg_len - 2) \o cpu_to_le16(msg_len - 2)
                   \o payload
           message == body \o cpu_to_le16(crc16(0, body, length - 2))
           p == <<PACKET_TYPE_WRITE, cmd.device>> \o cpu_to_le16(0)
                \o cpu_to_le16(0) \o cpu_to_le16(length) \o message
                \o [i \in 1..(PACKET_DATA_SIZE - length) |-> 0]
       IN p \o cpu_to_le16(crc16(0, p, APPLESPI_PACKET_SIZE - 2))

\* values of cmd_msg_cntr, and values given to brightness_set
EncCounters == {0, 127, 254}
EncBlValues == {0, 1, 128, 255}

\* the state applespi_resume leaves before it calls applespi_init, after any
\* number of commands and with any wanted led and backlight
EncInit ==
  /\ want_init_cmd = FALSE /\ have_cl_led_on = FALSE /\ have_bl_level = 0
  /\ want_cl_led_on \in BOOLEAN
  /\ want_bl_level \in {bl_level(v) : v \in EncBlValues}
  /\ cmd_msg_cntr \in EncCounters
  /\ cmd_msg_queued = FALSE /\ drain = FALSE
  /\ read_active = FALSE /\ write_active = FALSE
  /\ saved_msg_len = 0
  /\ tx_cmd = NoCmd /\ spi_queue = <<>>
  /\ gpe_enabled = TRUE /\ pm_pc = "resume_init" /\ pm_op = "suspend"
  /\ woken = FALSE /\ awaiting_ack = <<>>
  /\ last_event = ResumeEvent
  /\ rx_buffer = Fill(APPLESPI_PACKET_SIZE, 0)
  /\ tx_buffer = EncodePacket(NoCmd)
  /\ msg_buf = Fill(MSG_BUF_SIZE, 0)
  /\ rx_result = NoResult
  /\ trail = <<>>

\* tx_buffer once the handler has left the state s
EncTx(s) ==
  tx_buffer' = IF s.tx_cmd = tx_cmd THEN tx_buffer ELSE EncodePacket(s.tx_cmd)

\* applespi_resume, line 1800: applespi_init
EncResumeInit(sts) ==
  /\ pm_pc = "resume_init"
  /\ LET s == applespi_init(Locked, sts)
     IN Store(s) /\ EncTx(s) /\ last_event' = Event("init", "none", s)
  /\ pm_pc' = "running"
  /\ UNCHANGED <<saved_msg_len, gpe_enabled, pm_op, awaiting_ack, rx_buffer,
                 msg_buf, rx_result, trail>>

\* applespi_async_write_complete; a packet written successfully is with the
\* device (trail), which will send it back
EncWriteComplete(wr_status, tx_status, sts) ==
  /\ spi_queue # <<>> /\ Head(spi_queue).t = "wr"
  /\ LET s == async_write_complete([Locked EXCEPT !.spi_queue = Tail(spi_queue)],
                                   wr_status, tx_status, sts)
     IN /\ Store(s) /\ EncTx(s)
        /\ last_event' = Event(WriteOutcome(wr_status, tx_status),
                               IF WriteAccepted(wr_status, tx_status) THEN "none"
                               ELSE Head(spi_queue).kind, s)
  /\ awaiting_ack' = IF WriteAccepted(wr_status, tx_status)
                     THEN Append(awaiting_ack, Head(spi_queue).kind)
                     ELSE awaiting_ack
  /\ trail' = IF WriteAccepted(wr_status, tx_status)
              THEN Append(trail, tx_buffer) ELSE trail
  /\ UNCHANGED <<saved_msg_len, gpe_enabled, pm_pc, pm_op, rx_buffer, msg_buf,
                 rx_result>>

\* applespi_notify: the device has a response to deliver
EncNotify(sts) ==
  /\ gpe_enabled /\ trail # <<>> /\ spi_queue = <<>>
  /\ LET s == applespi_notify(Locked, sts)
     IN Store(s) /\ EncTx(s) /\ last_event' = Event("notify", "none", s)
  /\ UNCHANGED <<saved_msg_len, gpe_enabled, pm_pc, pm_op, awaiting_ack,
                 rx_buffer, msg_buf, rx_result, trail>>

\* applespi_async_read_complete: the device sent back the packet it received
EncReadComplete(sts) ==
  /\ spi_queue # <<>> /\ Head(spi_queue).t = "rd" /\ trail # <<>>
  /\ rx_buffer' = Head(trail)
  /\ trail' = Tail(trail)
  /\ \E g \in {got_data_bytes(Head(trail), saved_msg_len, msg_buf)} :
       LET s == got_data_locked([Locked EXCEPT !.spi_queue = Tail(spi_queue)],
                                g, g.r, sts)
           acked == g.crc_ok /\ g.r.cleanup /\ g.flags = PACKET_TYPE_WRITE
       IN /\ Store(s) /\ EncTx(s)
          /\ last_event' = Event(IF acked THEN "read_response" ELSE "read",
                                 IF acked THEN Head(awaiting_ack) ELSE "none", s)
          /\ awaiting_ack' = IF acked THEN Tail(awaiting_ack) ELSE awaiting_ack
          /\ saved_msg_len' = g.r.saved_msg_len
          /\ msg_buf' = g.msg_buf
          /\ rx_result' = [res |-> g.r.res, handler |-> g.r.handler,
                           message |-> g.message]
  /\ UNCHANGED <<gpe_enabled, pm_pc, pm_op>>

EncNext ==
  \/ \E sts \in AsyncSts : EncResumeInit(sts)
  \/ \E wr_status \in WrStatuses, tx_status \in TxStatuses, sts \in AsyncSts :
       EncWriteComplete(wr_status, tx_status, sts)
  \/ \E sts \in AsyncSts : EncNotify(sts)
  \/ \E sts \in AsyncSts : EncReadComplete(sts)

EncSpec == EncInit /\ [][EncNext]_vars

(***************************************************************************)
(* The backlight scaling: brightness_set of the LED class device is called *)
(* with any value of enum led_brightness up to max_brightness (LED_FULL,   *)
(* the default the LED core gives a device that sets none).                *)
(***************************************************************************)
BlRequests == 0..MAX_KBD_BL_LEVEL

\* the driver after applespi_probe sent the init command, whose response is
\* not there yet
BlInit ==
  /\ want_init_cmd = FALSE /\ want_cl_led_on = FALSE /\ have_cl_led_on = FALSE
  /\ want_bl_level = 0 /\ have_bl_level = 0 /\ cmd_msg_cntr = 1
  /\ cmd_msg_queued = TRUE /\ drain = FALSE
  /\ read_active = FALSE /\ write_active = TRUE
  /\ tx_cmd = [kind |-> "init", device |-> PACKET_DEV_TPAD, counter |-> 0, val |-> 0]
  /\ spi_queue = <<WrXfer("init")>>
  /\ gpe_enabled = TRUE /\ pm_pc = "running" /\ pm_op = "none" /\ woken = FALSE
  /\ awaiting_ack = <<>>
  /\ last_event = [op |-> "init", sub |-> TRUE, res |-> "none"]
  /\ saved_msg_len = 0
  /\ rx_buffer = NoWire /\ tx_buffer = NoWire /\ msg_buf = NoWire
  /\ rx_result = NoWire /\ trail = <<>>

\* applespi_set_bl_level(value); trail remembers the value asked for
BlSet(value, sts) ==
  /\ LET s == applespi_set_bl_level(Locked, value, sts)
     IN Store(s) /\ last_event' = Event("bl", "none", s)
  /\ trail' = <<[value |-> value]>>
  /\ UNCHANGED <<saved_msg_len, gpe_enabled, pm_pc, pm_op, awaiting_ack,
                 rx_buffer, tx_buffer, msg_buf, rx_result>>

BlNext == \E value \in BlRequests, sts \in AsyncSts : BlSet(value, sts)

BlSpec == BlInit /\ [][BlNext]_vars

(***************************************************************************)
(* The touchpad handler.  TpSpec feeds applespi_got_data the packets of    *)
(* touchpad messages of every length that fits msg_buf, with               *)
(* number_of_fingers anything a byte holds, and keeps in trail what        *)
(* report_tp_state did with the arrays pos and slots.                      *)
(***************************************************************************)
\* faulty variant of tp_number_of_fingers: the count is not cut
tp_number_of_fingers_uncut(nfing) == nfing

\* lines 1414-1420: tp->number_of_fingers after the test against MAX_FINGERS
tp_number_of_fingers(nfing) ==
  IF nfing > MAX_FINGERS THEN MAX_FINGERS ELSE nfing

\* raw2int(f->touch_major) != 0 for finger i (counted from 0) of the message
Touching(touch, i) ==
  CASE touch = "all" -> TRUE
    [] touch = "none" -> FALSE
    [] touch = "even" -> i % 2 = 0

\* report_tp_state, lines 1088-1112: the loop over the fingers; acc holds n
\* and the indexes of fingers[] and pos[] used so far
RECURSIVE tp_scan(_, _, _, _)
tp_scan(i, number_of_fingers, touch, acc) ==
  IF i >= number_of_fingers THEN acc
  ELSE IF ~Touching(touch, i)
  THEN tp_scan(i + 1, number_of_fingers, touch,
               [acc EXCEPT !.fingers = @ \cup {i}])
  ELSE tp_scan(i + 1, number_of_fingers, touch,
               [acc EXCEPT !.fingers = @ \cup {i},
                           !.pos = @ \cup {acc.n},
                           !.n = @ + 1])

\* report_tp_state, lines 1074-1135: the indexes it uses in t->fingers, in
\* applespi->pos and in applespi->slots (input_mt_assign_slots reads pos[0 ..
\* n-1] and writes slots[0 .. n-1]; report_finger_data gets slots[i], pos[i]
\* and fingers[i] for i < n)
report_tp_state(number_of_fingers, touch) ==
  LET a == tp_scan(0, number_of_fingers, touch,
                   [n |-> 0, fingers |-> {}, pos |-> {}])
  IN [called |-> TRUE,
      number_of_fingers |-> number_of_fingers,
      n |-> a.n,
      fingers |-> a.fingers \cup 0..(a.n - 1),
      pos |-> a.pos \cup 0..(a.n - 1),
      slots |-> 0..(a.n - 1)]

\* report_tp_state was not called
NoTpReport ==
  [called |-> FALSE, number_of_fingers |-> 0, n |-> 0, fingers |-> {},
   pos |-> {}, slots |-> {}]

\* the length of a touchpad message with n fingers: header, struct
\* touchpad_protocol (which ends in the crc) and the fingers
TpMsgLen(n) == MSG_HEADER_SIZE + TP_HEADER_SIZE + n * TP_FINGER_SIZE

\* the messages that fit msg_buf have 15 fingers at most
TpMaxFit == (MSG_BUF_SIZE - MSG_HEADER_SIZE - TP_HEADER_SIZE) \div TP_FINGER_SIZE

\* number_of_fingers in a message sized for n fingers: n, its neighbours,
\* the values around MAX_FINGERS, and every value of the byte in the message
\* sized for MAX_FINGERS + 1 fingers
TpCounts(n) ==
  ({n - 1, n, n + 1, 0, MAX_FINGERS, MAX_FINGERS + 1, 255} \cap (0..255))
  \cup (IF n = MAX_FINGERS + 1 THEN 0..255 ELSE {})

\* the packets before the last one of the messages too long for one packet
TpFirsts ==
  {DevPkt(TRUE, PACKET_TYPE_READ, PACKET_DEV_TPAD, 0,
          TpMsgLen(n) - PACKET_DATA_SIZE, PACKET_DATA_SIZE, 0, TRUE, 0) :
     n \in {k \in 0..(TpMaxFit + 1) : TpMsgLen(k) > PACKET_DATA_SIZE}}
  \cup
  {DevPkt(TRUE, PACKET_TYPE_READ, PACKET_DEV_TPAD, PACKET_DATA_SIZE,
          TpMsgLen(n) - 2 * PACKET_DATA_SIZE, PACKET_DATA_SIZE, 0, TRUE, 0) :
     n \in {k \in 0..TpMaxFit : TpMsgLen(k) > 2 * PACKET_DATA_SIZE}}

\* the last packet of a message sized for n fingers: message->length is right
\* for the message, number_of_fingers is anything
TpEnds ==
  {DevPkt(TRUE, PACKET_TYPE_READ, PACKET_DEV_TPAD,
          ((TpMsgLen(nf[1]) - 1) \div PACKET_DATA_SIZE) * PACKET_DATA_SIZE, 0,
          TpMsgLen(nf[1])
            - ((TpMsgLen(nf[1]) - 1) \div PACKET_DATA_SIZE) * PACKET_DATA_SIZE,
          TpMsgLen(nf[1]) - MSG_HEADER_SIZE - 2, TRUE, nf[2]) :
     nf \in {x \in (0..TpMaxFit) \X (0..255) : x[2] \in TpCounts(x[1])}}

TpInit ==
  /\ CoordInit
  /\ saved_msg_len = 0
  /\ rx_buffer = NoWire /\ tx_buffer = NoWire /\ msg_buf = NoWire
  /\ rx_result = NoWire
  /\ trail = <<>>

\* applespi_async_read_complete after the transfer put the packet pkt into
\* rx_buffer: applespi_got_data, the touchpad handler when it is reached, and
\* what is done under cmd_msg_lock
TpFeed(pkt, touch) ==
  /\ \E r \in {applespi_got_data(saved_msg_len, pkt.crc_ok, pkt.flags, pkt.device,
                                 pkt.off, pkt.rem, pkt.len, pkt.mlen, pkt.mcrc_ok,
                                 pkt.nfing)} :
       /\ LET s == got_data_locked(Locked, pkt, r, 0)
          IN Store(s) /\ last_event' = Event("read", "none", s)
       /\ saved_msg_len' = r.saved_msg_len
       /\ rx_result' = r
       /\ trail' = <<[pkt |-> pkt, saved |-> saved_msg_len,
                      tp |-> IF r.handler = "touchpad"
                             THEN report_tp_state(tp_number_of_fingers(pkt.nfing),
                                                  touch)
                             ELSE NoTpReport]>>
  /\ UNCHANGED <<gpe_enabled, pm_pc, pm_op, awaiting_ack, rx_buffer, tx_buffer,
                 msg_buf>>

TpNext ==
  \E pkt \in TpFirsts \cup TpEnds, touch \in {"all", "none", "even"} :
    TpFeed(pkt, touch)

TpSpec == TpInit /\ [][TpNext]_vars

(***************************************************************************)
(* The keyboard handler.  KbSpec calls applespi_handle_keyboard_event with *)
(* one keyboard report after the other; trail holds last_keys_pressed,     *)
(* last_keys_fn_pressed and last_fn_pressed, and the codes with which the  *)
(* last call indexed applespi_scancodes.                                   *)
(***************************************************************************)
\* ARRAY_SIZE(applespi_scancodes)
SCANCODES_SIZE == 146

\* lines 1187-1205, the released keys: the codes of the last report that are
\* not in this one are looked up (applespi_code_to_key, line 1151, indexes
\* applespi_scancodes with the code)
released_lookups(last_keys_pressed, keys_pressed) ==
  {last_keys_pressed[i] :
     i \in {k \in 1..MAX_ROLLOVER :
              \A j \in 1..MAX_ROLLOVER : last_keys_pressed[k] # keys_pressed[j]}}

\* lines 1207-1219, the pressed keys: the codes of this report that are above
\* 0 and below the size of the table are looked up
pressed_lookups(keys_pressed) ==
  {keys_pressed[i] :
     i \in {k \in 1..MAX_ROLLOVER :
              keys_pressed[k] < SCANCODES_SIZE /\ keys_pressed[k] > 0}}

\* lines 1179-1247
applespi_handle_keyboard_event(kb, keys_pressed, fn_pressed) ==
  LET rel == [i \in 1..MAX_ROLLOVER |->
                IF \A j \in 1..MAX_ROLLOVER :
                     kb.last_keys_pressed[i] # keys_pressed[j]
                THEN 0 ELSE kb.last_keys_fn_pressed[i]]
      fn == [i \in 1..MAX_ROLLOVER |->
               IF keys_pressed[i] < SCANCODES_SIZE /\ keys_pressed[i] > 0
               THEN fn_pressed ELSE rel[i]]
  IN [last_keys_pressed |-> keys_pressed,
      last_keys_fn_pressed |-> fn,
      last_fn_pressed |-> fn_pressed,
      released |-> released_lookups(kb.last_keys_pressed, keys_pressed),
      pressed |-> pressed_lookups(keys_pressed)]

\* key codes in the reports: none, KEY_A, the last code of the table, the
\* first one beyond it, and the largest a byte holds
KbCodes == {0, 4, SCANCODES_SIZE - 1, SCANCODES_SIZE, 255}

\* applespi_data after devm_kzalloc
KbInit ==
  /\ CoordInit
  /\ saved_msg_len = 0
  /\ rx_buffer = NoWire /\ tx_buffer = NoWire /\ msg_buf = NoWire
  /\ rx_result = NoWire
  /\ trail = [last_keys_pressed |-> [i \in 1..MAX_ROLLOVER |-> 0],
              last_keys_fn_pressed |-> [i \in 1..MAX_ROLLOVER |-> 0],
              last_fn_pressed |-> 0,
              released |-> {}, pressed |-> {}]

\* a keyboard report reached applespi_handle_keyboard_event
KbReport(keys_pressed, fn_pressed) ==
  /\ trail' = applespi_handle_keyboard_event(trail, keys_pressed, fn_pressed)
  /\ UNCHANGED <<coord_vars, saved_msg_len, rx_buffer, tx_buffer, msg_buf,
                 rx_result>>

\* the reports hold two keys at most
KbNext == \E keys_pressed \in {<<a, b, 0, 0, 0, 0>> : a \in KbCodes, b \in KbCodes},
             fn_pressed \in {0, 1} :
            KbReport(keys_pressed, fn_pressed)

KbSpec == KbInit /\ [][KbNext]_vars

(***************************************************************************)
(* The counter of the commands.  CntSpec runs the exchange cycle and       *)
(* keeps, in trail, how many commands of each kind were built so far.      *)
(***************************************************************************)
\* commands built in one run
CntBuilds == 4

\* the commands built, kind by kind, and the value of cmd_msg_cntr at which
\* the run stops taking requests
CntTrail(init, capsl, bl) ==
  [init |-> init, capsl |-> capsl, bl |-> bl,
   limit |-> init + capsl + bl + CntBuilds]

\* the driver as applespi_probe finds it, or after the init command and 253
\* changes of the caps-lock led, all answered: cmd_msg_cntr is 254
CntInit ==
  /\ saved_msg_len = 0
  /\ rx_buffer = NoWire /\ tx_buffer = NoWire /\ msg_buf = NoWire
  /\ rx_result = NoWire
  /\ \/ CoordInit /\ trail = CntTrail(0, 0, 0)
     \/ /\ want_init_cmd = FALSE
        /\ want_cl_led_on = TRUE /\ have_cl_led_on = TRUE
        /\ want_bl_level = 0 /\ have_bl_level = 0
        /\ cmd_msg_cntr = 254
        /\ cmd_msg_queued = FALSE /\ drain = FALSE
        /\ read_active = FALSE /\ write_active = FALSE
        /\ tx_cmd = [kind |-> "capsl", device |-> PACKET_DEV_KEYB,
                     counter |-> 253, val |-> 2]
        /\ spi_queue = <<>>
        /\ gpe_enabled = TRUE /\ pm_pc = "running" /\ pm_op = "none"
        /\ woken = FALSE /\ awaiting_ack = <<>>
        /\ last_event = [op |-> "read_response", sub |-> FALSE, res |-> "capsl"]
        /\ trail = CntTrail(1, 253, 0)

\* trail once the handler has left the state s: a command built is counted
CntCount(s) ==
  trail' = IF s.cmd_msg_cntr # cmd_msg_cntr
           THEN [trail EXCEPT ![s.tx_cmd.kind] = @ + 1]
           ELSE trail

\* applespi_probe, line 1687: applespi_init
CntProbeInit(sts) ==
  /\ pm_pc = "probe"
  /\ LET s == applespi_init(Locked, sts)
     IN Store(s) /\ CntCount(s) /\ last_event' = Event("init", "none", s)
  /\ pm_pc' = "running"
  /\ UNCHANGED <<saved_msg_len, gpe_enabled, pm_op, awaiting_ack, rx_buffer,
                 tx_buffer, msg_buf, rx_result>>

\* applespi_event, EV_LED
CntSetCapslLed(capslock_on, sts) ==
  /\ cmd_msg_cntr < trail.limit
  /\ LET s == applespi_set_capsl_led(Locked, capslock_on, sts)
     IN Store(s) /\ CntCount(s) /\ last_event' = Event("capsl", "none", s)
  /\ UNCHANGED <<saved_msg_len, gpe_enabled, pm_pc, pm_op, awaiting_ack,
                 rx_buffer, tx_buffer, msg_buf, rx_result>>

\* brightness_set of the backlight class device
CntSetBlLevel(value, sts) ==
  /\ pm_pc # "probe"
  /\ cmd_msg_cntr < trail.limit
  /\ LET s == applespi_set_bl_level(Locked, value, sts)
     IN Store(s) /\ CntCount(s) /\ last_event' = Event("bl", "none", s)
  /\ UNCHANGED <<saved_msg_len, gpe_enabled, pm_pc, pm_op, awaiting_ack,
                 rx_buffer, tx_buffer, msg_buf, rx_result>>

\* applespi_async_write_complete
CntWriteComplete(wr_status, tx_status, sts) ==
  /\ spi_queue # <<>> /\ Head(spi_queue).t = "wr"
  /\ LET s == async_write_complete([Locked EXCEPT !.spi_queue = Tail(spi_queue)],
                                   wr_status, tx_status, sts)
     IN /\ Store(s) /\ CntCount(s)
        /\ last_event' = Event(WriteOutcome(wr_status, tx_status),
                               IF WriteAccepted(wr_status, tx_status) THEN "none"
                               ELSE Head(spi_queue).kind, s)
  /\ awaiting_ack' = IF WriteAccepted(wr_status, tx_status)
                     THEN Append(awaiting_ack, Head(spi_queue).kind)
                     ELSE awaiting_ack
  /\ UNCHANGED <<saved_msg_len, gpe_enabled, pm_pc, pm_op, rx_buffer, tx_buffer,
                 msg_buf, rx_result>>

\* applespi_notify: the device has a response to deliver
CntNotify(sts) ==
  /\ gpe_enabled /\ awaiting_ack # <<>> /\ spi_queue = <<>>
  /\ LET s == applespi_notify(Locked, sts)
     IN Store(s) /\ CntCount(s) /\ last_event' = Event("notify", "none", s)
  /\ UNCHANGED <<saved_msg_len, gpe_enabled, pm_pc, pm_op, awaiting_ack,
                 rx_buffer, tx_buffer, msg_buf, rx_result>>

\* the device's response to a command: one packet, everything right
CntResponse == DevPkt(TRUE, PACKET_TYPE_WRITE, PACKET_DEV_KEYB, 0, 0, 10, 0, TRUE, 0)

\* applespi_async_read_complete: the response was read
CntReadComplete(sts) ==
  /\ spi_queue # <<>> /\ Head(spi_queue).t = "rd" /\ awaiting_ack # <<>>
  /\ LET pkt == CntResponse
         r == applespi_got_data(saved_msg_len, pkt.crc_ok, pkt.flags, pkt.device,
                                pkt.off, pkt.rem, pkt.len, pkt.mlen, pkt.mcrc_ok,
                                pkt.nfing)
         s == got_data_locked([Locked EXCEPT !.spi_queue = Tail(spi_queue)],
                              pkt, r, sts)
     IN /\ Store(s) /\ CntCount(s)
        /\ saved_msg_len' = r.saved_msg_len
        /\ last_event' = Event("read_response", Head(awaiting_ack), s)
  /\ awaiting_ack' = Tail(awaiting_ack)
  /\ UNCHANGED <<gpe_enabled, pm_pc, pm_op, rx_buffer, tx_buffer, msg_buf,
                 rx_result>>

CntNext ==
  \/ \E sts \in AsyncSts : CntProbeInit(sts)
  \/ \E capslock_on \in BOOLEAN, sts \in AsyncSts : CntSetCapslLed(capslock_on, sts)
  \/ \E value \in BlValues, sts \in AsyncSts : CntSetBlLevel(value, sts)
  \/ \E wr_status \in WrStatuses, tx_status \in TxStatuses, sts \in AsyncSts :
       CntWriteComplete(wr_status, tx_status, sts)
  \/ \E sts \in AsyncSts : CntNotify(sts)
  \/ \E sts \in AsyncSts : CntReadComplete(sts)

CntSpec == CntInit /\ [][CntNext]_vars

(***************************************************************************)
(* Properties of the exchange coordinator                                  *)
(***************************************************************************)
\* write exchanges that are not resolved: the write transfer is submitted and
\* not completed, or it succeeded and its response was not read yet
Outstanding == NumQueued("wr") + Len(awaiting_ack)

\* the command of the oldest unresolved write exchange
OutstandingKind ==
  IF awaiting_ack # <<>> THEN Head(awaiting_ack)
  ELSE IF NumQueued("wr") > 0
  THEN spi_queue[CHOOSE i \in DOMAIN spi_queue :
                   /\ spi_queue[i].t = "wr"
                   /\ \A j \in 1..(i - 1) : spi_queue[j].t # "wr"].kind
  ELSE "none"

\* the step built a command (it may have failed to submit it)
Built == cmd_msg_cntr' = cmd_msg_cntr + 1

\* the step submitted a write transfer
Submitted ==
  /\ Built
  /\ cmd_msg_queued'
  /\ spi_queue' # <<>>
  /\ spi_queue'[Len(spi_queue')] = WrXfer(tx_cmd'.kind)

\* the step neither built a command nor queued a write transfer
NothingSubmitted ==
  /\ cmd_msg_cntr' = cmd_msg_cntr
  /\ tx_cmd' = tx_cmd
  /\ ~last_event'.sub
  /\ Cardinality({i \in DOMAIN spi_queue' : spi_queue'[i].t = "wr"}) <= NumQueued("wr")

C2_CapslAfterBlResolves ==
  [][(OutstandingKind = "bl" /\ want_cl_led_on # have_cl_led_on /\ ~want_init_cmd)
       => /\ Outstanding = 1
          /\ last_event'.res # "bl" => ~last_event'.sub /\ cmd_msg_cntr' = cmd_msg_cntr
          /\ (last_event'.res = "bl" /\ ~drain)
               => /\ Built
                  /\ tx_cmd'.kind = "capsl"
                  /\ have_cl_led_on' = want_cl_led_on
                  /\ cmd_msg_queued' => Submitted /\ last_event'.sub]_vars

\* the response to a backlight command was read and the pending caps-lock
\* command was submitted in the same step
C2_Witness ==
  /\ last_event = [op |-> "read_response", sub |-> TRUE, res |-> "bl"]
  /\ tx_cmd.kind = "capsl"
  /\ Outstanding = 1

\* C3: a command that is built is the init command if init is pending, else
\* the caps-lock command if its wanted value differs from the one the device
\* has, else the backlight command (whose wanted value then differs); building
\* a command leaves the other pending changes pending, so that with all three
\* pending the writes are init, caps-lock, backlight in this order.
C3_Priority ==
  [][Built =>
       LET init_pending == want_init_cmd \/ last_event'.op = "init"
           cl_pending == want_cl_led_on' # have_cl_led_on
           bl_pending == want_bl_level' # have_bl_level
       IN /\ tx_cmd'.kind = IF init_pending THEN "init"
                            ELSE IF cl_pending THEN "capsl" ELSE "bl"
          /\ init_pending \/ cl_pending \/ bl_pending
          /\ ~want_init_cmd'
          /\ init_pending => have_cl_led_on' = have_cl_led_on
                             /\ have_bl_level' = have_bl_level
          /\ (~init_pending /\ cl_pending) => have_cl_led_on' = want_cl_led_on'
                                              /\ have_bl_level' = have_bl_level
          /\ (~init_pending /\ ~cl_pending) => have_bl_level' = want_bl_level'
                                               /\ have_cl_led_on' = have_cl_led_on]_vars

\* the init command was submitted while a caps-lock change and a backlight
\* change were pending too
C3_Witness ==
  /\ last_event.sub
  /\ tx_cmd.kind = "init"
  /\ want_cl_led_on # have_cl_led_on
  /\ want_bl_level # have_bl_level

\* C4: while drain is set no command is built and no write transfer is
\* submitted, whatever request, response or write failure arrives.
C4_NoWriteWhileDraining == [][drain => NothingSubmitted]_vars

\* a write failed while drain was set and a caps-lock change was pending: the
\* change stays pending
C4_Witness ==
  /\ drain
  /\ last_event.op = "write_failed"
  /\ want_cl_led_on # have_cl_led_on
  /\ ~cmd_msg_queued

\* C5: when the first wait of applespi_suspend / applespi_remove has returned,
\* no write transfer is submitted and not yet completed.
C5_DrainWaitsForWrite == pm_pc = "disable_gpe" => NumQueued("wr") = 0

\* C6: applespi_suspend / applespi_remove return from both waits, provided the
\* transfers complete and the device answers the commands written to it.
C6_DrainReturns ==
  ([]<>(spi_queue = <<>>) /\ []<>(awaiting_ack = <<>>))
    => (drain ~> pm_pc \in {"suspended", "removed"})

NumQueuedRdNext == Cardinality({i \in DOMAIN spi_queue' : spi_queue'[i].t = "rd"})

\* the step submitted a read transfer
RdSubmitted == NumQueuedRdNext > NumQueued("rd")

\* the step was a read completion callback
ReadCompleted ==
  last_event'.op \in {"read_error", "read_bad_crc", "read_incomplete",
                      "read_message", "read_response", "read_response_rejected"}

C16_DuplicateNotifyIgnored ==
  [][/\ (last_event'.op = "notify" /\ NumQueued("rd") >= 1) => ~RdSubmitted
     /\ NumQueuedRdNext <= 1]_vars

\* C17: after every read completion callback read_active is false.
C17_ReadCompleteClears == [][ReadCompleted => ~read_active']_vars

\* the step was a write completion callback that found the write failed
WriteFailed == last_event'.op \in {"write_failed", "write_bad_status"}

\* something is pending: applespi_send_cmd_msg would build a command
Pending ==
  \/ want_init_cmd
  \/ want_cl_led_on # have_cl_led_on
  \/ want_bl_level # have_bl_level

C19_FailedWriteResolves ==
  [][WriteFailed =>
       /\ awaiting_ack' = awaiting_ack
       /\ (~drain /\ Pending)
            => /\ Built
               /\ cmd_msg_queued' => Submitted
               /\ write_active' = cmd_msg_queued'
       /\ (drain \/ ~Pending)
            => /\ ~write_active' /\ ~cmd_msg_queued'
               /\ cmd_msg_cntr' = cmd_msg_cntr
               /\ ~last_event'.sub
               /\ NumQueued("wr") = Cardinality({i \in DOMAIN spi_queue' :
                                                  spi_queue'[i].t = "wr"}) + 1
               /\ tx_cmd' = IF drain THEN tx_cmd ELSE NoCmd]_vars

\* the init command's write ended with wrong status bytes and the pending
\* caps-lock command was submitted in the same step
C19_Witness ==
  /\ last_event = [op |-> "write_bad_status", sub |-> TRUE, res |-> "init"]
  /\ tx_cmd.kind = "capsl"
  /\ write_active /\ cmd_msg_queued
  /\ awaiting_ack = <<>>

\* C20: cmd_msg_queued, once set, is cleared (and applespi_send_cmd_msg gets
\* to build the next command) only by a write completion that found the write
\* failed, by applespi_resume, or by the read of a packet flagged
\* PACKET_TYPE_WRITE whose message passed the packet crc, the length check
\* and the message crc.
C20_QueuedUntilResponse ==
  [][(cmd_msg_queued /\ (~cmd_msg_queued' \/ Built))
       => \/ WriteFailed
          \/ pm_pc = "suspended" /\ pm_pc' = "resume_init"
          \/ last_event'.op = "read_response"]_vars

(***************************************************************************)
(* Properties of applespi_got_data and of the encoder                      *)
(***************************************************************************)
\* the last packets fed were all the packets of message m, in order, the
\* first of them with saved_msg_len = 0
FedInOrder(m) ==
  LET k == Len(RxPackets[m])
      n == Len(trail)
  IN /\ n >= k
     /\ \A j \in 1..k : trail[n - k + j].m = m /\ trail[n - k + j].part = j
     /\ trail[n - k + 1].saved = 0

\* the last two packets fed were the second and then the first packet of the
\* two-packet message m, the second with saved_msg_len = 0
FedOutOfOrder(m) ==
  LET n == Len(trail)
  IN /\ Len(RxPackets[m]) = 2
     /\ n >= 2
     /\ trail[n - 1].m = m /\ trail[n - 1].part = 2 /\ trail[n - 1].saved = 0
     /\ trail[n].m = m /\ trail[n].part = 1

\* applespi_got_data handed the whole message m to a handler
Delivered(res, m) ==
  /\ res.res = "Complete"
  /\ res.handler # "none"
  /\ res.message = RxMessages[m]

\* C7: when the packets of a message were fed in order starting with
\* saved_msg_len = 0, every packet but the last gave Incomplete, the last gave
\* the message, byte for byte, and saved_msg_len is 0 again.
C7_InOrderReassembly ==
  \A m \in DOMAIN RxMessages :
    FedInOrder(m) =>
      LET k == Len(RxPackets[m])
          n == Len(trail)
      IN /\ \A j \in 1..(k - 1) : trail[n - k + j].res = "Incomplete"
         /\ Delivered(rx_result, m)
         /\ saved_msg_len = 0

\* the 300-byte message was fed as 246 + 54 bytes and came out whole
C7_Witness ==
  /\ FedInOrder(1)
  /\ trail[Len(trail)].part = 2
  /\ trail[Len(trail) - 1].res = "Incomplete"
  /\ Len(rx_result.message) = 300

\* C8: a packet whose offset differs from saved_msg_len is rejected with
\* UnexpectedOffset and msg_buf is not written; after the two packets of a
\* message were fed in the wrong order, the next message fed in order, in one
\* packet or in two, is handed over whole.
C8_RecoversAfterOutOfOrder ==
  [][\A m \in DOMAIN RxMessages, m2 \in DOMAIN RxMessages :
       LET n == Len(trail)
           fed == trail'[Len(trail')]
           one == /\ FedOutOfOrder(m)
                  /\ fed.m = m2 /\ fed.parts = 1
           two == /\ n >= 3
                  /\ Len(RxPackets[m]) = 2
                  /\ trail[n - 2].m = m /\ trail[n - 2].part = 2
                  /\ trail[n - 2].saved = 0
                  /\ trail[n - 1].m = m /\ trail[n - 1].part = 1
                  /\ trail[n].m = m2 /\ trail[n].part = 1 /\ trail[n].parts = 2
                  /\ fed.m = m2 /\ fed.part = 2
       IN /\ FedOutOfOrder(m) => /\ trail[n - 1].res = "UnexpectedOffset"
                                 /\ ~trail[n - 1].copy
          /\ (one \/ two) => Delivered(rx_result', m2) /\ saved_msg_len' = 0]_vars

\* C9: a packet with offset 0 and remaining 0 gives as its message the first
\* length bytes of its data, leaves msg_buf as it was and saved_msg_len at 0.
C9_SinglePacketVerbatim ==
  [][(/\ le16_to_cpu(rx_buffer', PKT_OFFSET) = 0
      /\ le16_to_cpu(rx_buffer', PKT_REMAINING) = 0)
       => /\ rx_result'.res = "Complete"
          /\ rx_result'.handler # "none"
          /\ rx_result'.message =
               SubSeq(rx_buffer', PKT_DATA,
                      PKT_DATA + le16_to_cpu(rx_buffer', PKT_LENGTH) - 1)
          /\ msg_buf' = msg_buf
          /\ saved_msg_len' = 0]_vars

\* a whole message in one packet arrived while the first part of another
\* message was saved
C9_Witness ==
  /\ trail # <<>>
  /\ trail[Len(trail)].parts = 1
  /\ trail[Len(trail)].saved = PACKET_DATA_SIZE
  /\ rx_result.res = "Complete"
  /\ ~trail[Len(trail)].copy

\* the checks of the receiving side on a packet: packet crc, message crc,
\* message->length
FrameAccepted(buf) ==
  LET length == le16_to_cpu(buf, PKT_LENGTH)
      message == SubSeq(buf, PKT_DATA, PKT_DATA + length - 1)
  IN /\ crc16(0, buf, APPLESPI_PACKET_SIZE) = 0
     /\ crc16(0, message, length) = 0
     /\ le16_to_cpu(message, MSG_LENGTH) = length - MSG_HEADER_SIZE - 2

\* C10: the crc16 over the 256 bytes of every command packet built, and over
\* the message in it, is 0; applespi_got_data accepts the packet when it comes
\* back and hands over the message that was put in.
C10_EncoderCrc ==
  /\ tx_cmd.kind # "none" => FrameAccepted(tx_buffer)
  /\ rx_result # NoResult =>
       /\ FrameAccepted(rx_buffer)
       /\ rx_result.res = "Complete"
       /\ rx_result.handler = "cmd_response"
       /\ rx_result.message =
            SubSeq(rx_buffer, PKT_DATA,
                   PKT_DATA + le16_to_cpu(rx_buffer, PKT_LENGTH) - 1)

\* init, caps-lock and backlight were written with the counters 254, 255 and 0,
\* and the caps-lock packet came back and was accepted
C10_Witness ==
  /\ tx_cmd.kind = "bl"
  /\ tx_cmd.counter = 0
  /\ cmd_msg_cntr = 257
  /\ rx_result.res = "Complete"
  /\ rx_result.message[4] = 255

(***************************************************************************)
(* Properties of the backlight scaling                                     *)
(***************************************************************************)
\* the value last given to applespi_set_bl_level
BlAsked == trail[1].value

\* C11: brightness 0 gives the device level 0 and brightness 1 gives
\* MIN_KBD_BL_LEVEL (32).
C11_BlLevelLowEnd ==
  trail # <<>> =>
    /\ BlAsked = 0 => want_bl_level = 0
    /\ BlAsked = 1 => want_bl_level = MIN_KBD_BL_LEVEL

\* brightness 1 was asked for and the level wanted is 32
C11_Witness == trail = <<[value |-> 1]>> /\ want_bl_level = 32

\* C12: brightness 255 gives the device level MAX_KBD_BL_LEVEL (255).
C12_BlLevelHighEnd ==
  (trail # <<>> /\ BlAsked = 255) => want_bl_level = MAX_KBD_BL_LEVEL

\* C13: the device level does not decrease when the brightness asked for does
\* not, every brightness from 1 to 255 gives a level in
\* MIN_KBD_BL_LEVEL..MAX_KBD_BL_LEVEL, and neither the product
\* (MAX_KBD_BL_LEVEL - MIN_KBD_BL_LEVEL) * KBD_BL_LEVEL_SCALE nor the product
\* value * KBD_BL_LEVEL_ADJ exceeds INT_MAX.
C13_BlLevelMonotonic ==
  [][trail' # <<>> =>
       LET v == trail'[1].value
       IN /\ v >= 1 => /\ want_bl_level' >= MIN_KBD_BL_LEVEL
                       /\ want_bl_level' <= MAX_KBD_BL_LEVEL
          /\ v <= INT_MAX \div KBD_BL_LEVEL_ADJ
          /\ MAX_KBD_BL_LEVEL - MIN_KBD_BL_LEVEL <= INT_MAX \div KBD_BL_LEVEL_SCALE
          /\ (trail # <<>> /\ BlAsked <= v) => want_bl_level <= want_bl_level'
          /\ (trail # <<>> /\ BlAsked >= v) => want_bl_level >= want_bl_level']_vars

\* brightness 128 was asked for and the level wanted lies between the levels
\* of 1 and of 255
C13_Witness ==
  /\ trail = <<[value |-> 128]>>
  /\ want_bl_level > MIN_KBD_BL_LEVEL
  /\ want_bl_level < MAX_KBD_BL_LEVEL

(***************************************************************************)
(* Properties of the coordinator: what is built, and when                  *)
(***************************************************************************)
\* something is pending when the step's applespi_send_cmd_msg looks: the
\* wanted values are those the step's request has just stored
PendingAtCall ==
  \/ want_init_cmd \/ last_event'.op = "init"
  \/ want_cl_led_on' # have_cl_led_on
  \/ want_bl_level' # have_bl_level

\* write transfers queued after the step
NumQueuedWrNext == Cardinality({i \in DOMAIN spi_queue' : spi_queue'[i].t = "wr"})

\* the step put a write transfer on the SPI queue: the queue grew by one, or a
\* completion callback took the head off and put one on the tail
WrQueued ==
  /\ spi_queue' # <<>>
  /\ spi_queue'[Len(spi_queue')].t = "wr"
  /\ \/ Len(spi_queue') > Len(spi_queue)
     \/ /\ Len(spi_queue') = Len(spi_queue)
        /\ spi_queue' # spi_queue \/ ReadCompleted
           \/ last_event'.op \in {"write_ok", "write_failed", "write_bad_status"}

\* the step is applespi_resume resetting the flags and the applied values
ResumeResets == pm_pc = "suspended" /\ pm_pc' = "resume_init"

\* C21: a write transfer is put on the queue only by a step that built a
\* command, and a command is built only when something is pending (the init
\* command, or a wanted value that differs from the applied one).  A step that
\* finds nothing pending queues no write transfer and changes neither
\* cmd_msg_cntr nor the flags nor the wanted and applied values; all it may do
\* is zero the packet buffer.
C21_NothingPendingNothingSent ==
  [][/\ WrQueued => Built
     /\ Built => PendingAtCall
     /\ (~PendingAtCall /\ ~ResumeResets) =>
          /\ ~WrQueued
          /\ cmd_msg_cntr' = cmd_msg_cntr
          /\ NumQueuedWrNext <= NumQueued("wr")
          /\ ~want_init_cmd'
          /\ have_cl_led_on' = have_cl_led_on
          /\ have_bl_level' = have_bl_level
          /\ cmd_msg_queued' => cmd_msg_queued
          /\ write_active' => write_active
          /\ tx_cmd' \in {tx_cmd, NoCmd}]_vars

\* a caps-lock request that asks for what is applied already reached the
\* builder (no exchange in progress, not draining): the packet buffer is
\* zeroed and nothing was sent
C21_Witness ==
  /\ last_event = [op |-> "capsl", sub |-> FALSE, res |-> "none"]
  /\ ~drain /\ ~cmd_msg_queued
  /\ ~Pending
  /\ cmd_msg_cntr > 0
  /\ tx_cmd = NoCmd
  /\ NumQueued("wr") = 0

(***************************************************************************)
(* Properties of applespi_got_data on arbitrary packets                    *)
(***************************************************************************)
\* the packet fed by the step, and saved_msg_len as applespi_got_data found it
HdrPkt == trail'[1].pkt

\* the length of the message the packet completes: what was saved and the
\* packet's data, or the packet's data alone
HdrMsgLen ==
  IF HdrPkt.rem > 0 \/ HdrPkt.off > 0
  THEN saved_msg_len + HdrPkt.len
  ELSE HdrPkt.len

\* C22: a handler runs only for a message whose last packet had the right
\* packet crc, whose message->length is its length less the 8 header bytes and
\* the 2 crc bytes, and whose crc residue is 0; what is saved for reassembly
\* comes only from packets with the right packet crc.  One handler at most
\* runs: the keyboard handler only for a packet flagged read from the
\* keyboard, the touchpad handler only for one flagged read from the
\* touchpad, the response handler only for one flagged write.
C22_HandlerOnlyForValidMessage ==
  [][/\ rx_result'.handler \in {"none", "keyboard", "touchpad", "cmd_response"}
     /\ rx_result'.handler # "none" =>
          /\ HdrPkt.crc_ok
          /\ HdrPkt.rem = 0
          /\ HdrMsgLen >= MSG_HEADER_SIZE + 2
          /\ HdrPkt.mlen = HdrMsgLen - MSG_HEADER_SIZE - 2
          /\ HdrPkt.mcrc_ok
     /\ rx_result'.handler = "keyboard" =>
          HdrPkt.flags = PACKET_TYPE_READ /\ HdrPkt.device = PACKET_DEV_KEYB
     /\ rx_result'.handler = "touchpad" =>
          HdrPkt.flags = PACKET_TYPE_READ /\ HdrPkt.device = PACKET_DEV_TPAD
     /\ rx_result'.handler = "cmd_response" => HdrPkt.flags = PACKET_TYPE_WRITE
     /\ saved_msg_len' > saved_msg_len => HdrPkt.crc_ok]_vars

\* the second packet of a touchpad message of 296 bytes arrived after the
\* first and the touchpad handler ran
C22_Witness ==
  /\ trail # <<>>
  /\ trail[1].pkt.off = PACKET_DATA_SIZE /\ trail[1].saved = PACKET_DATA_SIZE
  /\ trail[1].pkt.len = 50
  /\ rx_result.handler = "touchpad"

(***************************************************************************)
(* Properties of the coordinator: errors while draining                    *)
(***************************************************************************)
\* C23: while drain is set, a read that completes with a wrong packet crc or
\* with a transfer error, and a write that completes with a transfer error,
\* each wake drain_complete and leave false the flag the waiter waits on:
\* write_active for a write, read_active for a read.
C23_ErrorWhileDrainingCompletes ==
  [][drain =>
       /\ last_event'.op \in {"read_bad_crc", "read_error"}
            => ~read_active' /\ woken'
       /\ last_event'.op = "write_failed"
            => ~write_active' /\ woken']_vars

(***************************************************************************)
(* Properties of the coordinator: the write buffer                         *)
(***************************************************************************)
\* the step is a completion callback: the transfer at the head of the SPI
\* queue has completed and its callback runs
Completing ==
  ReadCompleted \/ last_event'.op \in {"write_ok", "write_failed", "write_bad_status"}

\* write transfers submitted before the step whose completion callback has
\* neither run nor is the one running in the step
WrUncompleted ==
  Cardinality({i \in DOMAIN spi_queue :
                 /\ spi_queue[i].t = "wr"
                 /\ i > 1 \/ ~Completing})

SubmitFailed == Built /\ ~Submitted

\* C25: the applied value takes the wanted one, and want_init_cmd is cleared,
\* exactly in a step that submits a write transfer; when spi_async refuses the
\* transfer, want_init_cmd and the applied values are as they were before the
\* command was built.
C25_AppliedOnlyWhenSubmitted ==
  [][/\ Submitted =>
          \/ tx_cmd'.kind = "init" /\ ~want_init_cmd'
          \/ tx_cmd'.kind = "capsl" /\ have_cl_led_on' = want_cl_led_on'
          \/ tx_cmd'.kind = "bl" /\ have_bl_level' = want_bl_level'
     /\ SubmitFailed =>
          /\ (want_init_cmd \/ last_event'.op = "init") => want_init_cmd'
          /\ have_cl_led_on' = have_cl_led_on
          /\ have_bl_level' = have_bl_level
     /\ (~Built /\ ~ResumeResets) =>
          /\ have_cl_led_on' = have_cl_led_on
          /\ have_bl_level' = have_bl_level
          /\ want_init_cmd' => want_init_cmd]_vars

(***************************************************************************)
(* Properties of applespi_got_data: what is left of a rejected message     *)
(***************************************************************************)
\* the results with which applespi_got_data rejects a packet or a message
Rejections ==
  {"FrameChecksumMismatch", "InvalidPacketLength", "UnexpectedOffset",
   "MessageTooLarge", "LengthMismatch", "ChecksumMismatch"}

\* C26: after applespi_got_data has rejected a packet or a message (wrong
\* packet crc, length above 246, unexpected offset, message too large,
\* message->length mismatch, wrong message crc), saved_msg_len is 0.
C26_RejectionDiscardsSaved ==
  (rx_result # NoWire /\ rx_result.res \in Rejections) => saved_msg_len = 0

\* the packet fed by the step continues or starts a multi-packet message and
\* passed the tests before the two of the size
HdrContinues ==
  /\ HdrPkt.crc_ok
  /\ HdrPkt.len <= PACKET_DATA_SIZE
  /\ HdrPkt.rem > 0 \/ HdrPkt.off > 0
  /\ HdrPkt.off = saved_msg_len

\* C27: a packet of a multi-packet message whose offset + remaining or offset +
\* length exceeds the size of msg_buf (MAX_PKTS_PER_MSG * APPLESPI_PACKET_SIZE)
\* is rejected and nothing is copied; saved_msg_len never exceeds that size;
\* whenever packet data is copied into msg_buf, the bytes offset .. offset +
\* length - 1 lie inside it.  Offset, remaining and length range over values
\* up to 65535.
C27_ReassemblyInBounds ==
  [][/\ (/\ HdrContinues
         /\ \/ HdrPkt.off + HdrPkt.rem > MSG_BUF_SIZE
            \/ HdrPkt.off + HdrPkt.len > MSG_BUF_SIZE)
          => /\ rx_result'.res = "MessageTooLarge"
             /\ ~rx_result'.copy
             /\ rx_result'.handler = "none"
             /\ saved_msg_len' = saved_msg_len
     /\ rx_result'.copy =>
          /\ HdrPkt.off + HdrPkt.len <= MSG_BUF_SIZE
          /\ saved_msg_len' \in {0, HdrPkt.off + HdrPkt.len}
     /\ saved_msg_len' <= MSG_BUF_SIZE]_vars

\* two full packets are saved (492 bytes) and the third, with offset 492 and
\* remaining 0, has 50 bytes, which would end at 542: it is rejected
C27_Witness ==
  /\ trail # <<>>
  /\ trail[1].saved = 2 * PACKET_DATA_SIZE
  /\ trail[1].pkt.off = 2 * PACKET_DATA_SIZE
  /\ trail[1].pkt.rem = 0 /\ trail[1].pkt.len = 50
  /\ rx_result.res = "MessageTooLarge"
  /\ saved_msg_len = 2 * PACKET_DATA_SIZE

(***************************************************************************)
(* Properties of the coordinator: after suspend and remove                 *)
(***************************************************************************)
\* C28: when applespi_remove or applespi_suspend has returned, no read and no
\* write transfer is on the SPI queue (submitted and not completed), and none
\* is submitted until applespi_resume.
C28_QuiescentAfterDrain ==
  [][/\ pm_pc' \in {"suspended", "removed"} => spi_queue' = <<>>
     /\ (pm_pc \in {"suspended", "removed"} /\ ~ResumeResets)
          => ~WrQueued /\ ~RdSubmitted]_vars

(***************************************************************************)
(* Properties of the coordinator: cmd_msg_lock                             *)
(***************************************************************************)
\* the fields cmd_msg_lock protects (struct applespi_data, lines 392-408)
LockedState ==
  <<want_init_cmd, want_cl_led_on, have_cl_led_on, want_bl_level, have_bl_level,
    cmd_msg_cntr, cmd_msg_queued, drain, read_active, write_active>>

\* the step is a handler that makes its changes between spin_lock_irqsave and
\* spin_unlock_irqrestore of cmd_msg_lock: applespi_init, applespi_set_capsl_led,
\* applespi_set_bl_level, applespi_notify, the bad-CRC branch of
\* applespi_got_data, applespi_msg_complete (reached from the cleanup label and
\* from a failed write), and the first part of applespi_suspend /
\* applespi_remove
UnderLock ==
  last_event'.op \in {"init", "capsl", "bl", "notify", "read_bad_crc",
                      "read_message", "read_response", "read_response_rejected",
                      "write_failed", "write_bad_status", "pm"}

\* C29: every step that changes a field protected by cmd_msg_lock is a
\* handler that holds the lock while it does.
C29_ChangesUnderLock == [][LockedState' # LockedState => UnderLock]_vars

(***************************************************************************)
(* Properties of the coordinator: the exchange ends                        *)
(***************************************************************************)
\* C30: whenever cmd_msg_queued is set it becomes false again, provided the
\* transfers complete and the device sends its one response to every command
\* written to it, also when the response reaches the driver with a wrong
\* packet crc.
C30_QueuedEventuallyClears ==
  ([]<>(spi_queue = <<>>) /\ []<>(awaiting_ack = <<>>))
    => (cmd_msg_queued ~> ~cmd_msg_queued)

(***************************************************************************)
(* Properties of the coordinator: after a failed write                     *)
(***************************************************************************)
\* the number of fields for which a command is pending
PendingCount ==
  (IF want_init_cmd THEN 1 ELSE 0)
  + (IF want_cl_led_on # have_cl_led_on THEN 1 ELSE 0)
  + (IF want_bl_level # have_bl_level THEN 1 ELSE 0)

\* C31: a write completion callback that found the write failed does not send
\* the failed command again: the command it builds, if any, is for another
\* field, or for the same field with the value a request has stored since
\* (for the init command: applespi_init was called since).  It builds one
\* command when a field is pending and drain is clear, and none otherwise,
\* and each command it builds takes one field off the pending ones, of which
\* there are three at most: with no new request, failing writes are followed
\* by at most three more.
C31_NoRetryAfterFailedWrite ==
  [][WriteFailed =>
       /\ tx_cmd.kind = Head(spi_queue).kind
       /\ Built =>
            /\ \/ tx_cmd' # [tx_cmd EXCEPT !.counter = tx_cmd'.counter]
               \/ (tx_cmd.kind = "init" /\ want_init_cmd)
            /\ PendingCount > 0 /\ ~drain
            /\ PendingCount' = PendingCount - 1
       /\ ~Built =>
            /\ PendingCount = 0 \/ drain
            /\ PendingCount' = PendingCount
            /\ ~cmd_msg_queued'
       /\ PendingCount <= 3]_vars

\* the init command failed, then the caps-lock command sent in its place
\* failed, and the backlight command was sent: the third command built
C31_Witness ==
  /\ last_event = [op |-> "write_failed", sub |-> TRUE, res |-> "capsl"]
  /\ tx_cmd.kind = "bl"
  /\ cmd_msg_cntr = 3
  /\ PendingCount = 0

(***************************************************************************)
(* Properties of the coordinator: what a command carries                   *)
(***************************************************************************)
\* C32: a command is for one field: init, caps-lock led or backlight.  A
\* caps-lock or backlight command carries the value wanted when it is built
\* (values wanted earlier and overwritten since are not sent), that value
\* becomes the applied one, and the command is built only if the wanted value
\* differs from the applied one: a field whose wanted value is back at the
\* applied one gets no command.  The other field is left as it was.
C32_OneFieldCurrentValue ==
  [][Built =>
       /\ tx_cmd'.kind \in {"init", "capsl", "bl"}
       /\ tx_cmd'.kind = "init" =>
            /\ have_cl_led_on' = have_cl_led_on
            /\ have_bl_level' = have_bl_level
       /\ tx_cmd'.kind = "capsl" =>
            /\ tx_cmd'.val = IF want_cl_led_on' THEN 2 ELSE 0
            /\ want_cl_led_on' # have_cl_led_on
            /\ have_cl_led_on' = want_cl_led_on'
            /\ have_bl_level' = have_bl_level
       /\ tx_cmd'.kind = "bl" =>
            /\ tx_cmd'.val = want_bl_level'
            /\ want_bl_level' # have_bl_level
            /\ have_bl_level' = want_bl_level'
            /\ have_cl_led_on' = have_cl_led_on]_vars

\* the caps-lock led and the backlight were both changed while the init
\* command was outstanding; its response was read and one command, for the
\* led, was sent: the backlight is still pending
C32_Witness ==
  /\ last_event = [op |-> "read_response", sub |-> TRUE, res |-> "init"]
  /\ tx_cmd.kind = "capsl" /\ tx_cmd.val = 2
  /\ have_cl_led_on
  /\ want_bl_level # have_bl_level
  /\ NumQueued("wr") = 1

(***************************************************************************)
(* Properties of the command counter                                       *)
(***************************************************************************)
\* C33: the counter of a command built is the number of commands of its kind
\* built before it, modulo 256: init, caps-lock and backlight commands are
\* counted apart.
C33_CounterPerKind ==
  [][Built => tx_cmd'.counter = trail[tx_cmd'.kind] % 256]_vars

(***************************************************************************)
(* Properties of the command packet                                        *)
(***************************************************************************)
\* the bytes of the command struct before its crc_16: init_command.cmd;
\* capsl_command.unknown and led; bl_command.const1, level and const2
CmdPayloadSize(kind) ==
  CASE kind = "init" -> 2
    [] kind = "capsl" -> 2
    [] kind = "bl" -> 6

\* C34: while a command write is on the SPI queue, tx_buffer holds a packet
\* with flags = PACKET_TYPE_WRITE, offset 0, remaining 0, length = 8 + the
\* payload bytes of the command + 2 (246 at most), message->length = length -
\* 8 - 2, message->rsp_buf_len = message->length, device = PACKET_DEV_TPAD for
\* the init command and PACKET_DEV_KEYB for the other two, and zero in every
\* data byte after the message.
C34_CommandPacketFields ==
  NumQueued("wr") > 0 =>
    LET length == le16_to_cpu(tx_buffer, PKT_LENGTH)
        message == SubSeq(tx_buffer, PKT_DATA, PKT_DATA + PACKET_DATA_SIZE - 1)
    IN /\ Len(tx_buffer) = APPLESPI_PACKET_SIZE
       /\ tx_buffer[PKT_FLAGS] = PACKET_TYPE_WRITE
       /\ le16_to_cpu(tx_buffer, PKT_OFFSET) = 0
       /\ le16_to_cpu(tx_buffer, PKT_REMAINING) = 0
       /\ length = MSG_HEADER_SIZE + CmdPayloadSize(tx_cmd.kind) + 2
       /\ length <= PACKET_DATA_SIZE
       /\ le16_to_cpu(message, MSG_LENGTH) = length - MSG_HEADER_SIZE - 2
       /\ le16_to_cpu(message, MSG_RSP_BUF_LEN) = le16_to_cpu(message, MSG_LENGTH)
       /\ tx_buffer[PKT_DEVICE] = IF tx_cmd.kind = "init" THEN PACKET_DEV_TPAD
                                  ELSE PACKET_DEV_KEYB
       /\ \A i \in (length + 1)..PACKET_DATA_SIZE : message[i] = 0

\* the backlight command is on the SPI queue: a packet of length 16 for the
\* keyboard
C34_Witness ==
  /\ NumQueued("wr") = 1
  /\ tx_cmd.kind = "bl" /\ tx_cmd.val > 0
  /\ le16_to_cpu(tx_buffer, PKT_LENGTH) = 16
  /\ tx_buffer[PKT_DEVICE] = PACKET_DEV_KEYB


NothingStranded == (~drain /\ ~cmd_msg_queued) => PendingCount = 0

\* C36 as stated: where drain is not set and no write is queued, nothing is
\* pending (want_init_cmd is clear and the wanted values are the applied
\* ones); only a step in which spi_async refuses the write transfer ends this.
C36_NoPendingStranded ==
  [][(NothingStranded /\ ~SubmitFailed) => NothingStranded']_vars

\* C36: the same, except while applespi_resume is between its resets
\* (lines 1781-1787) and its call of applespi_init (line 1800).
C36_NoPendingStrandedOutsideResume ==
  [][((pm_pc # "resume_init" => NothingStranded) /\ ~SubmitFailed)
       => (pm_pc' # "resume_init" => NothingStranded')]_vars

\* both requested changes have been sent and answered: no write is queued and
\* nothing is pending
C36_Witness ==
  /\ ~drain /\ ~cmd_msg_queued /\ pm_pc = "running"
  /\ want_cl_led_on /\ have_cl_led_on
  /\ want_bl_level = 254 /\ have_bl_level = 254
  /\ last_event.op = "read_response"


(***************************************************************************)
(* Properties of the coordinator: resume                                   *)
(***************************************************************************)
\* the step resolves the exchange of an init command after a resume, while
\* drain is not set and no other init command is wanted
InitResolvesAfterResume ==
  /\ pm_op = "suspend" /\ pm_pc = "running"
  /\ tx_cmd.kind = "init" /\ cmd_msg_queued
  /\ last_event'.res = "init"
  /\ ~drain /\ ~want_init_cmd

\* C37: applespi_resume resets have_cl_led_on to off and have_bl_level to 0
\* and keeps want_cl_led_on and want_bl_level; its applespi_init builds the
\* init command and leaves the applied values at off and 0; the step that
\* resolves the exchange of the init command then builds the caps-lock
\* command if the led is wanted on, else the backlight command if a non-zero
\* level is wanted, with the wanted value and without a request; a wanted
\* 'off' or 0 that is what the device has is never sent.
C37_ResumeResendsWanted ==
  [][/\ ResumeResets =>
          /\ ~have_cl_led_on' /\ have_bl_level' = 0
          /\ want_cl_led_on' = want_cl_led_on
          /\ want_bl_level' = want_bl_level
     /\ (pm_pc = "resume_init" /\ pm_pc' = "running" /\ ~cmd_msg_queued) =>
          /\ Built /\ tx_cmd'.kind = "init"
          /\ have_cl_led_on' = have_cl_led_on
          /\ have_bl_level' = have_bl_level
          /\ last_event = ResumeEvent => ~have_cl_led_on' /\ have_bl_level' = 0
     /\ InitResolvesAfterResume =>
          /\ want_cl_led_on' = want_cl_led_on
          /\ want_bl_level' = want_bl_level
          /\ (want_cl_led_on /\ ~have_cl_led_on) =>
               /\ Built /\ tx_cmd'.kind = "capsl" /\ tx_cmd'.val = 2
               /\ have_cl_led_on'
          /\ (want_cl_led_on = have_cl_led_on /\ want_bl_level # have_bl_level) =>
               /\ Built /\ tx_cmd'.kind = "bl" /\ tx_cmd'.val = want_bl_level
               /\ have_bl_level' = want_bl_level
          /\ (want_cl_led_on = have_cl_led_on /\ want_bl_level = have_bl_level) =>
               ~Built /\ ~cmd_msg_queued'
     /\ (Built /\ tx_cmd'.kind = "capsl") => want_cl_led_on' # have_cl_led_on
     /\ (Built /\ tx_cmd'.kind = "bl") => want_bl_level' # have_bl_level]_vars

\* the led was on before the suspend; after the resume the init command was
\* sent and answered, and the caps-lock command was built with 'on' as the
\* fourth command, with no request since the resume
C37_Witness ==
  /\ pm_op = "suspend" /\ pm_pc = "running"
  /\ last_event = [op |-> "read_response", sub |-> TRUE, res |-> "init"]
  /\ tx_cmd.kind = "capsl" /\ tx_cmd.val = 2 /\ tx_cmd.counter = MaxCmds
  /\ want_cl_led_on /\ have_cl_led_on


(***************************************************************************)
(* Properties of applespi_got_data: messages too short for a header        *)
(***************************************************************************)
\* the packet completes a message: its crc and length are right, nothing
\* remains, and it is a single packet or continues what was saved
HdrWhole ==
  /\ HdrPkt.crc_ok
  /\ HdrPkt.len <= PACKET_DATA_SIZE
  /\ HdrPkt.rem = 0
  /\ HdrPkt.off > 0 => HdrPkt.off = saved_msg_len /\ HdrPkt.off + HdrPkt.len <= MSG_BUF_SIZE

\* C38: a packet that completes a message of fewer than MSG_HEADER_SIZE + 2 =
\* 10 bytes is rejected at the test of message->length, whatever 16-bit value
\* message->length has, and no handler runs; a handler runs only for a
\* message of 10 bytes or more.
C38_ShortMessageRejected ==
  [][/\ (HdrWhole /\ HdrMsgLen < MSG_HEADER_SIZE + 2) =>
          /\ HdrPkt.mlen \in 0..U16_MAX
          /\ rx_result'.res = "LengthMismatch"
          /\ rx_result'.handler = "none"
          /\ saved_msg_len' = 0
     /\ rx_result'.handler # "none" => HdrMsgLen >= MSG_HEADER_SIZE + 2]_vars

\* a packet of 9 bytes whose message->length is 65535, the low 16 bits of
\* 9 - 10, was rejected at the test of message->length
C38_Witness ==
  /\ trail # <<>>
  /\ trail[1].pkt.crc_ok
  /\ trail[1].pkt.off = 0 /\ trail[1].pkt.rem = 0
  /\ trail[1].pkt.len = MSG_HEADER_SIZE + 1
  /\ trail[1].pkt.mlen = U16_MAX
  /\ rx_result.res = "LengthMismatch"


(***************************************************************************)
(* Properties of the touchpad handler                                      *)
(***************************************************************************)
\* C39: report_tp_state is called only for a message whose message->length
\* + 2 is 48 + 30 * number_of_fingers; it goes through MAX_FINGERS fingers at
\* most, whatever number_of_fingers (0 .. 255) the message holds, and every
\* index it uses in the arrays pos and slots is below MAX_FINGERS.
C39_FingerIndexInBounds ==
  trail # <<>> =>
    LET pkt == trail[1].pkt
        tp == trail[1].tp
    IN /\ pkt.nfing \in 0..255
       /\ tp.called <=> rx_result.handler = "touchpad"
       /\ tp.called =>
            /\ pkt.mlen + 2 = TP_HEADER_SIZE + pkt.nfing * TP_FINGER_SIZE
            /\ tp.number_of_fingers <= MAX_FINGERS
            /\ tp.number_of_fingers <= pkt.nfing
            /\ tp.n <= tp.number_of_fingers
            /\ \A i \in tp.pos \cup tp.slots : i >= 0 /\ i < MAX_FINGERS
            /\ \A i \in tp.fingers : i >= 0 /\ i < pkt.nfing

\* a message of three packets with 15 fingers, all of them touching:
\* report_tp_state went through 11 and used pos[10] and slots[10]
C39_Witness ==
  /\ trail # <<>>
  /\ trail[1].pkt.nfing = TpMaxFit
  /\ trail[1].saved = 2 * PACKET_DATA_SIZE
  /\ trail[1].tp.called
  /\ trail[1].tp.n = MAX_FINGERS
  /\ MAX_FINGERS - 1 \in trail[1].tp.pos \cap trail[1].tp.slots


(***************************************************************************)
(* Properties of the keyboard handler                                      *)
(***************************************************************************)
\* C40: whatever key codes (0 .. 255) the keyboard reports hold, every code
\* with which applespi_handle_keyboard_event indexes applespi_scancodes is
\* below the size of the table: the codes of the keys newly pressed, and the
\* codes kept from the report before whose keys are released.
C40_ScancodeIndexInBounds ==
  /\ \A c \in trail.pressed : c >= 0 /\ c < SCANCODES_SIZE
  /\ \A c \in trail.released : c >= 0 /\ c < SCANCODES_SIZE

====
